---- MODULE Spec2Model ----
(***************************************************************************)
(* A model of the clause pipeline of lawbrief-ai:                          *)
(*   backend/risk_detector.py     assess_risks, _assess_clause_risk,       *)
(*                                _keyword_risk_score, _score_to_level     *)
(*   backend/clause_extractor.py  classify_clause, extract_clauses         *)
(*                                                                         *)
(* Numbers.  The code computes in floating point.  The model computes the  *)
(* same expressions exactly, in fixed point: a risk score x is held as the *)
(* integer x * ONE, a classifier score x as the integer x * CONE.  ONE and *)
(* CONE are chosen so that every value the code can form from the modelled *)
(* inputs is an integer.  A mean over n clauses is held as the pair        *)
(* (sum, n) and compared by cross-multiplication.                          *)
(*                                                                         *)
(* Texts are TLA+ strings; the string functions of the code (lower, count, *)
(* strip, re.search) are computed character by character.                  *)
(***************************************************************************)
EXTENDS Integers, Sequences, FiniteSets, TLC

VARIABLES
    pc,                 \* position of the running call
    clauses,            \* assess_risks: the clause dicts taken from the argument so far
    encodes,            \* outcome of each sentence_model.encode call, in call order
    clause_risks,       \* assess_risks: local list of per-clause records
    total_risk_score,   \* assess_risks: local accumulator
    risk_counts,        \* assess_risks: local level counters
    result,             \* what the call returned (NoResult before it returns)
    exc,                \* the exception raised inside the call ("none" if none was)
    raw_clauses,        \* extract_clauses: fragments taken from the segmenter so far
    results,            \* extract_clauses: local list of clause records
    doc_text,           \* the text argument of the running call
    args,               \* its other arguments and what the model capabilities answer
    calls,              \* the model capabilities invoked by the call, in order
    models,             \* the model objects the process has loaded and holds
    embeddings,         \* the exemplar embeddings the process has computed and holds
    cache               \* st.cache_data: the calls of process_document it has memoized

vars == <<pc, clauses, encodes, clause_risks, total_risk_score, risk_counts,
          result, exc, raw_clauses, results, doc_text, args, calls, models,
          embeddings, cache>>

(***************************************************************************)
(* The model objects the backend modules create when they are imported     *)
(***************************************************************************)
BACKEND_MODULES == <<"clause_extractor", "risk_detector", "summarizer">>

\* the module-level names bound to a model, in the order they are loaded
MODELS_OF(module) ==
    CASE module = "clause_extractor" -> <<"clause_extractor.nlp", "clause_extractor.sentence_model">>
      [] module = "risk_detector"    -> <<"risk_detector.sentence_model">>
      [] module = "summarizer"       -> <<"summarizer.abstractive_summarizer",
                                          "summarizer.bart_tokenizer",
                                          "summarizer.sentence_model">>

MODELS ==
    UNION {{MODELS_OF(BACKEND_MODULES[m])[i] : i \in 1..Len(MODELS_OF(BACKEND_MODULES[m]))} :
           m \in 1..Len(BACKEND_MODULES)}

\* the exemplar embeddings a module computes when it is imported
\* (risk_detector.py lines 357-360), after its models are loaded
EMBEDDINGS_OF(module) ==
    IF module = "risk_detector" THEN {"risk_detector.RISKY_EMBEDDINGS"} ELSE {}

\* the cache of _get_template_embeddings (clause_extractor.py lines 60-62)
TEMPLATE_EMBEDDINGS == "clause_extractor._get_template_embeddings"

\* every exemplar embedding a process can hold
EXEMPLARS == {"risk_detector.RISKY_EMBEDDINGS", TEMPLATE_EMBEDDINGS}

(***************************************************************************)
(* Fixed point                                                             *)
(***************************************************************************)
\* 1.0 of a risk score.  Weights are tenths, similarities hundredths, the
\* length factor is len/600 and the fusion divides by 10.
ONE == 60 * 100

\* n/d of a risk score; every use is exact.
Frac(n, d) == (ONE * n) \div d

Min(a, b) == IF a <= b THEN a ELSE b
Max(a, b) == IF a >= b THEN a ELSE b

(***************************************************************************)
(* Python strings                                                          *)
(***************************************************************************)
CharAt(s, i) == SubSeq(s, i, i)

ASCII_UPPER == "ABCDEFGHIJKLMNOPQRSTUVWXYZ"
ASCII_LOWER == "abcdefghijklmnopqrstuvwxyz"
DIGITS == "0123456789"

\* c occurs in the string chars
InChars(c, chars) == \E i \in 1..Len(chars) : CharAt(chars, i) = c

LowerChar(c) ==
    IF InChars(c, ASCII_UPPER)
    THEN CharAt(ASCII_LOWER, CHOOSE i \in 1..Len(ASCII_UPPER) : CharAt(ASCII_UPPER, i) = c)
    ELSE c

UpperChar(c) ==
    IF InChars(c, ASCII_LOWER)
    THEN CharAt(ASCII_UPPER, CHOOSE i \in 1..Len(ASCII_LOWER) : CharAt(ASCII_LOWER, i) = c)
    ELSE c

IsAlpha(c) == InChars(c, ASCII_UPPER) \/ InChars(c, ASCII_LOWER)

\* \w of the re module on ASCII text
IsWordChar(c) == IsAlpha(c) \/ InChars(c, DIGITS) \/ c = "_"

\* str.lower(), by halves (the recursion is log(len) deep)
RECURSIVE lower(_)
lower(s) ==
    IF Len(s) = 0 THEN ""
    ELSE IF Len(s) = 1 THEN LowerChar(s)
    ELSE LET h == Len(s) \div 2
         IN  lower(SubSeq(s, 1, h)) \o lower(SubSeq(s, h + 1, Len(s)))

\* s[i : i+len(k)] == k
StartsAt(s, k, i) ==
    /\ i >= 1
    /\ i + Len(k) - 1 <= Len(s)
    /\ SubSeq(s, i, i + Len(k) - 1) = k

\* the start positions of k in s that are >= i
MatchesFrom(s, k, i) == {p \in i..Len(s) : StartsAt(s, k, p)}

SetMin(S) == CHOOSE m \in S : \A n \in S : m <= n
SetMax(S) == CHOOSE m \in S : \A n \in S : m >= n

RECURSIVE CountFrom(_, _, _)
CountFrom(s, k, i) ==
    LET ms == MatchesFrom(s, k, i)
    IN  IF ms = {} THEN 0 ELSE 1 + CountFrom(s, k, SetMin(ms) + Len(k))

\* str.count(k) for a non-empty k: non-overlapping occurrences, left to right
count(s, k) == CountFrom(s, k, 1)

\* str.strip(chars): drop every leading and trailing character that is in chars
strip(s, chars) ==
    LET keep == {i \in 1..Len(s) : ~InChars(CharAt(s, i), chars)}
    IN  IF keep = {} THEN "" ELSE SubSeq(s, SetMin(keep), SetMax(keep))

(***************************************************************************)
(* re.search for the lexicon's patterns.  Each pattern is \b L \b for a    *)
(* finite set L of literals (its optional groups and alternations written  *)
(* out), every literal beginning and ending with a word character.         *)
(***************************************************************************)
\* \b holds before position i of s when s[i] is a word character
BoundaryBefore(s, i) == i = 1 \/ ~IsWordChar(CharAt(s, i - 1))

\* \b holds after position j of s when s[j] is a word character
BoundaryAfter(s, j) == j = Len(s) \/ ~IsWordChar(CharAt(s, j + 1))

\* re.search(pattern, text, re.IGNORECASE)
re_search(alts, text) ==
    LET t == lower(text)
    IN  \E lit \in alts : \E i \in 1..Len(t) :
            /\ StartsAt(t, lit, i)
            /\ BoundaryBefore(t, i)
            /\ BoundaryAfter(t, i + Len(lit) - 1)

(***************************************************************************)
(* risk_detector.py: tables                                                *)
(***************************************************************************)
\* weight w/10 as a risk score
W(tenths) == Frac(tenths, 10)

\* RISK_KEYWORDS in dict order.  key is the regex as written in the source
\* and alts the strings it matches between word boundaries.  The attorney
\* pattern holds the typographic apostrophe U+2019, a character no string of
\* this module can hold: in keys and texts it is written as the tilde
\* (like it neither a word character nor a blank), and the texts have no
\* tilde of their own.
RISK_KEYWORDS == <<
    [key |-> "\\bindemnif(y|ication|ies)?\\b", weight |-> W(10),
     alts |-> {"indemnif", "indemnify", "indemnification", "indemnifies"}],
    [key |-> "\\bliquidated damages\\b", weight |-> W(9),
     alts |-> {"liquidated damages"}],
    [key |-> "\\blimit(ed)? liability\\b", weight |-> W(9),
     alts |-> {"limit liability", "limited liability"}],
    [key |-> "\\bunlimited liability\\b", weight |-> W(10),
     alts |-> {"unlimited liability"}],
    [key |-> "\\bexclusive jurisdiction\\b", weight |-> W(6),
     alts |-> {"exclusive jurisdiction"}],
    [key |-> "\\bwithout liability\\b", weight |-> W(8),
     alts |-> {"without liability"}],
    [key |-> "\\bautomatic renewal\\b", weight |-> W(7),
     alts |-> {"automatic renewal"}],
    [key |-> "\\bnon[- ]refundable\\b", weight |-> W(6),
     alts |-> {"non-refundable", "non refundable"}],
    [key |-> "\\birrevocable\\b", weight |-> W(6),
     alts |-> {"irrevocable"}],
    [key |-> "\\bperpetual\\b", weight |-> W(7),
     alts |-> {"perpetual"}],
    [key |-> "\\bwaive( right(s)?)?\\b", weight |-> W(8),
     alts |-> {"waive", "waive right", "waive rights"}],
    [key |-> "\\bhold harmless\\b", weight |-> W(10),
     alts |-> {"hold harmless"}],
    [key |-> "\\bas is\\b", weight |-> W(5),
     alts |-> {"as is"}],
    [key |-> "\\bno warranty\\b", weight |-> W(7),
     alts |-> {"no warranty"}],
    [key |-> "\\bfinal sale\\b", weight |-> W(5),
     alts |-> {"final sale"}],
    [key |-> "\\bbinding arbitration\\b", weight |-> W(7),
     alts |-> {"binding arbitration"}],
    [key |-> "\\bclass action waiver\\b", weight |-> W(9),
     alts |-> {"class action waiver"}],
    [key |-> "\\battorney(~s|s)? fees?\\b", weight |-> W(5),
     alts |-> {"attorney fee", "attorney fees", "attorneys fee", "attorneys fees",
               "attorney~s fee", "attorney~s fees"}],
    [key |-> "\\bconsequential damages\\b", weight |-> W(8),
     alts |-> {"consequential damages"}],
    [key |-> "\\bpunitive damages\\b", weight |-> W(9),
     alts |-> {"punitive damages"}],
    [key |-> "\\bspecific performance\\b", weight |-> W(6),
     alts |-> {"specific performance"}],
    [key |-> "\\bpenalt(y|ies)\\b", weight |-> W(7),
     alts |-> {"penalty", "penalties"}],
    [key |-> "\\bforfeit\\b", weight |-> W(6),
     alts |-> {"forfeit"}],
    [key |-> "\\bbreach\\b", weight |-> W(5),
     alts |-> {"breach"}],
    [key |-> "\\bdefault\\b", weight |-> W(5),
     alts |-> {"default"}]
>>

\* CLAUSE_TYPE_WEIGHTS.get(clause_type, 0.0)
CLAUSE_TYPE_WEIGHTS(clause_type) ==
    CASE clause_type = "liability"          -> W(10)
      [] clause_type = "indemnification"    -> W(10)
      [] clause_type = "termination"        -> W(7)
      [] clause_type = "renewal"            -> W(6)
      [] clause_type = "payment"            -> W(4)
      [] clause_type = "confidentiality"    -> W(5)
      [] clause_type = "dispute resolution" -> W(8)
      [] OTHER                              -> 0

(***************************************************************************)
(* risk_detector.py: scoring one clause                                    *)
(***************************************************************************)
\* the thresholds taken inclusive
ScoreToLevelInclusive(num, den) ==
    IF 10 * num <= 3 * ONE * den THEN "Low"
    ELSE IF 10 * num <= 6 * ONE * den THEN "Medium"
    ELSE "High"

\* _score_to_level of the score num/den (den >= 1)
_score_to_level(num, den) ==
    IF 10 * num < 3 * ONE * den THEN "Low"
    ELSE IF 10 * num < 6 * ONE * den THEN "Medium"
    ELSE "High"

\* the loop of _keyword_risk_score over RISK_KEYWORDS[1..n]
RECURSIVE KeywordScan(_, _)
KeywordScan(text, n) ==
    IF n = 0
    THEN [matched_terms |-> <<>>, total_weight |-> 0, high_weight_hits |-> 0]
    ELSE LET acc == KeywordScan(text, n - 1)
             kw  == RISK_KEYWORDS[n]
         IN  IF re_search(kw.alts, text)
             THEN [matched_terms    |-> Append(acc.matched_terms, strip(kw.key, "\\b")),
                   total_weight     |-> acc.total_weight + kw.weight,
                   high_weight_hits |-> acc.high_weight_hits
                                          + (IF kw.weight >= W(8) THEN 1 ELSE 0)]
             ELSE acc

\* the addition of line 511 made from three strong patterns on
KeywordRiskScoreThreeHits(text) ==
    LET scan  == KeywordScan(text, Len(RISK_KEYWORDS))
        score == Min(scan.total_weight \div 5, ONE)
    IN  [keyword_score |-> IF scan.high_weight_hits >= 3
                           THEN Min(score + W(1), ONE)
                           ELSE score,
         matched_terms |-> scan.matched_terms]

\* lines 492-513
_keyword_risk_score(text) ==
    LET scan  == KeywordScan(text, Len(RISK_KEYWORDS))
        score == Min(scan.total_weight \div 5, ONE)
    IN  [keyword_score |-> IF scan.high_weight_hits >= 2
                           THEN Min(score + W(1), ONE)
                           ELSE score,
         matched_terms |-> scan.matched_terms]

(***************************************************************************)
(* Inputs                                                                  *)
(***************************************************************************)
\* the longest argument list of assess_risks
MaxClauses == 6

T_PAYMENT ==
    "Payment shall be made within 30 days of invoice receipt."
T_INDEMNIFY ==
    "The contractor shall indemnify and hold harmless the company from any claims without limitation."
T_RENEWAL ==
    "This agreement automatically renews for successive one-year terms unless terminated with 90 days notice."

\* 90 characters, no lexicon pattern
T_PLAIN90 ==
    "Each party shall deliver the agreed goods to the named warehouse on the next business day."
\* 240 characters, two patterns of weight 1.0
T_INDEMNIFY240 ==
    "The contractor shall indemnify and hold harmless the company, its officers and its employees from claims, losses or expenses arising out of the services performed under this agreement, including reasonable legal costs paid to third parties."
\* seven patterns, total weight 6.4
T_RISKY ==
    "Supplier shall indemnify and hold harmless Buyer, accepts unlimited liability, pays liquidated damages and punitive damages, and agrees to a class action waiver and binding arbitration."
\* 646 characters, one pattern of weight 0.5
T_LONG ==
    "The receiving party shall keep all information supplied by the disclosing party in strict confidence, shall use it only for the purpose of evaluating the proposed transaction, shall restrict access to those employees and advisers who need to know it for that purpose, shall return or destroy every copy on written request, and shall notify the disclosing party without delay of any unauthorised use or disclosure that comes to its attention. These duties continue for five years after the end of this agreement, and a breach of them entitles the disclosing party to seek an injunction in addition to any remedy otherwise open to it under the law."
\* more than 600 characters, no lexicon pattern
T_CONFIDENCE ==
    "The receiving party shall keep all information supplied by the disclosing party in strict confidence, shall use it only for the purpose of evaluating the proposed transaction, shall restrict access to those employees and advisers who need to know it for that purpose, shall return or destroy every copy on written request, and shall notify the disclosing party without delay of any unauthorised use or disclosure that comes to its attention. These duties continue for five years after the end of this agreement, and a failure to observe them entitles the disclosing party to seek an injunction in addition to any remedy otherwise open to it under the law."
\* more than 600 characters, eight patterns, total weight 6.9
T_MAXIMAL == T_RISKY \o " " \o T_LONG
\* two patterns of weight 0.8
T_WAIVERS ==
    "Each party may waive its claim to consequential damages."
\* four patterns, one of them twice, one of weight 0.8
T_BREACHES ==
    "A breach by the Supplier, or a second breach within a year, is a default: the Supplier shall waive the deposit, which is non-refundable."
\* four of the five governing_law keywords
T_VENUE ==
    "The governing law is that of Ohio, whose courts have jurisdiction, and the venue is Columbus."
\* nine occurrences of the seven payment keywords
T_FEES ==
    "Fee schedule: the payment of each fee, the invoice fee, the billing fee and the late payment fee."

\* every clause text of the inputs
TEXTS == {T_PAYMENT, T_INDEMNIFY, T_RENEWAL, T_PLAIN90, T_INDEMNIFY240, T_RISKY, T_LONG,
          T_VENUE, T_FEES, T_CONFIDENCE, T_MAXIMAL, T_WAIVERS, T_BREACHES}

\* Python values of a clause dict's "type": a str, or None
PyStr(s) == [ty |-> "str", v |-> s]
PyNone == [ty |-> "NoneType"]

\* outcomes of sentence_model.encode + cosine_similarity for one clause: the
\* similarities to the exemplar embeddings (the seven RISKY_EMBEDDINGS, or the
\* ten template embeddings), in hundredths, or an exception
Similarities(seq) == [raises |-> FALSE, similarities |-> seq]
EncodeRaises == [raises |-> TRUE]

\* a similarity of h/100 as a risk score
Sim(h) == Frac(h, 100)

\* What one iteration of the loop of assess_risks meets: the next clause dict
\* of the argument (its id is its position, as extract_clauses numbers them)
\* and the outcome of the embedding call made for it.
RiskInputs == {
    [clause |-> [text |-> T_PAYMENT, type |-> PyStr("Payment")],
     enc    |-> Similarities(<<20, 12, 18, 5, -3, 9, 11>>)],
    [clause |-> [text |-> T_RISKY, type |-> PyStr("Liability")],
     enc    |-> Similarities(<<100, 10, 8, 22, 41, 15, 48>>)],
    [clause |-> [text |-> T_RENEWAL, type |-> PyStr("Renewal")],
     enc    |-> Similarities(<<12, 80, 20, 31, 7, 9, 10>>)],
    [clause |-> [text |-> T_INDEMNIFY, type |-> PyStr("Liability")],
     enc    |-> EncodeRaises],
    [clause |-> [type |-> PyStr("Payment")],
     enc    |-> EncodeRaises],
    [clause |-> [text |-> T_PAYMENT, type |-> PyNone],
     enc    |-> Similarities(<<20, 12, 18, 5, -3, 9, 11>>)]
}

(***************************************************************************)
(* risk_detector.py: _assess_clause_risk                                   *)
(***************************************************************************)
\* _keyword_risk_score(text.lower()) of every input text, evaluated once
KEYWORD_RISK == [t \in TEXTS |-> _keyword_risk_score(lower(t))]

\* an exception leaving a function
Raise(name) == [exception |-> name]
IsException(r) == "exception" \in DOMAIN r

\* np.max of a non-empty vector
NpMax(v) == SetMax({v[i] : i \in 1..Len(v)})

\* the handler of the try block leaving 1.0 instead of 0.0
SimilarityScoreDefaultOne(enc) ==
    IF enc.raises THEN ONE
    ELSE LET max_similarity == Sim(NpMax(enc.similarities))
         IN  IF max_similarity > Sim(75)
             THEN Min(max_similarity + Sim(5), ONE)
             ELSE max_similarity

\* lines 443-458: the similarity sub-score, 0.0 when the try block raises
SimilarityScore(enc) ==
    IF enc.raises THEN 0
    ELSE LET max_similarity == Sim(NpMax(enc.similarities))
         IN  IF max_similarity > Sim(75)
             THEN Min(max_similarity + Sim(5), ONE)
             ELSE max_similarity

\* the extra emphasis of line 469 left uncapped
TypeBoostUncapped(type_str) ==
    LET clause_type == lower(type_str)
        type_boost  == CLAUSE_TYPE_WEIGHTS(clause_type)
    IN  IF clause_type \in {"liability", "indemnification"}
        THEN type_boost + W(1)
        ELSE type_boost

\* lines 464-469: the type sub-score of a str type
TypeBoost(type_str) ==
    LET clause_type == lower(type_str)
        type_boost  == CLAUSE_TYPE_WEIGHTS(clause_type)
    IN  IF clause_type \in {"liability", "indemnification"}
        THEN Min(type_boost + W(1), ONE)
        ELSE type_boost

\* the four signals weighted alike
FusionUnweighted(keyword_score, max_similarity, length_factor, type_boost) ==
    (keyword_score + max_similarity + length_factor + type_boost) \div 4

\* lines 472-477
Fusion(keyword_score, max_similarity, length_factor, type_boost) ==
    (5 * keyword_score + 3 * max_similarity + length_factor + type_boost) \div 10

\* clause: the dict; enc: what the embedding call does if it is reached.
\* Returns the record, or the exception that leaves the function.
_assess_clause_risk(clause, enc) ==
    IF "text" \notin DOMAIN clause THEN Raise("KeyError")
    ELSE
    LET text           == clause.text
        ks             == KEYWORD_RISK[text]
        max_similarity == SimilarityScore(enc)
        length_factor  == Min(Frac(Len(text), 300), 2 * ONE) \div 2
        type_value     == IF "type" \in DOMAIN clause THEN clause.type ELSE PyStr("")
    IN  IF type_value.ty # "str" THEN Raise("AttributeError")
        ELSE
        LET type_boost == TypeBoost(type_value.v)
            raw_score  == Fusion(ks.keyword_score, max_similarity, length_factor, type_boost)
        IN  [clause_id        |-> clause.id,
             risk_score       |-> raw_score,
             risk_level       |-> _score_to_level(raw_score, 1),
             matched_terms    |-> ks.matched_terms,
             keyword_score    |-> ks.keyword_score,
             similarity_score |-> max_similarity,
             length_factor    |-> length_factor,
             type_boost       |-> type_boost]

(***************************************************************************)
(* risk_detector.py: assess_risks                                          *)
(***************************************************************************)
TOP_N == 5

\* result before the call returns
NoResult == [pending |-> TRUE]

\* x put before its equals: the order of sorted(...)[::-1] on ascending keys
InsertDescBeforeEquals(sorted, x) ==
    LET k == Cardinality({i \in 1..Len(sorted) : sorted[i].risk_score > x.risk_score})
    IN  SubSeq(sorted, 1, k) \o <<x>> \o SubSeq(sorted, k + 1, Len(sorted))

\* list.insert keeping the list descending by risk_score, x after its equals
InsertDesc(sorted, x) ==
    LET k == Cardinality({i \in 1..Len(sorted) : sorted[i].risk_score >= x.risk_score})
    IN  SubSeq(sorted, 1, k) \o <<x>> \o SubSeq(sorted, k + 1, Len(sorted))

\* sorted(seq, key=lambda x: x["risk_score"], reverse=True): stable
RECURSIVE SortedDesc(_)
SortedDesc(seq) ==
    IF seq = <<>> THEN <<>>
    ELSE InsertDesc(SortedDesc(SubSeq(seq, 1, Len(seq) - 1)), seq[Len(seq)])

\* seq[:n]
Take(seq, n) == SubSeq(seq, 1, Min(n, Len(seq)))

\* the elevation applied whatever the counts are
AvgRiskScoreAlwaysRaised(total, n, counts) ==
    LET avg == IF n > 0 THEN [num |-> total, den |-> n] ELSE [num |-> 0, den |-> 1]
    IN  [num |-> Min(avg.num + W(1) * avg.den, ONE * avg.den), den |-> avg.den]

\* lines 391-395: the mean as num/den, raised when a clause is High
AvgRiskScore(total, n, counts) ==
    LET avg == IF n > 0 THEN [num |-> total, den |-> n] ELSE [num |-> 0, den |-> 1]
    IN  IF counts["High"] > 0
        THEN [num |-> Min(avg.num + W(1) * avg.den, ONE * avg.den), den |-> avg.den]
        ELSE avg

\* medium_risk_count read from the Low counter
SummaryMediumFromLow(input, risks, total, counts) ==
    LET avg_risk_score == AvgRiskScore(total, Len(input), counts)
    IN  [clause_risks        |-> risks,
         contract_risk_score |-> avg_risk_score,
         contract_risk_level |-> _score_to_level(avg_risk_score.num, avg_risk_score.den),
         risk_distribution   |-> counts,
         top_risky_clauses   |-> Take(SortedDesc(risks), TOP_N),
         total_clauses       |-> Len(input),
         high_risk_count     |-> counts["High"],
         medium_risk_count   |-> counts["Low"],
         low_risk_count      |-> counts["Low"]]

\* lines 397-413
Summary(input, risks, total, counts) ==
    LET avg_risk_score == AvgRiskScore(total, Len(input), counts)
    IN  [clause_risks        |-> risks,
         contract_risk_score |-> avg_risk_score,
         contract_risk_level |-> _score_to_level(avg_risk_score.num, avg_risk_score.den),
         risk_distribution   |-> counts,
         top_risky_clauses   |-> Take(SortedDesc(risks), TOP_N),
         total_clauses       |-> Len(input),
         high_risk_count     |-> counts["High"],
         medium_risk_count   |-> counts["Medium"],
         low_risk_count      |-> counts["Low"]]

\* the handler reporting the length of the argument
UnknownSummaryCounted ==
    [clause_risks        |-> <<>>,
     contract_risk_score |-> [num |-> 0, den |-> 1],
     contract_risk_level |-> "Unknown",
     risk_distribution   |-> [l \in {"Low", "Medium", "High"} |-> 0],
     top_risky_clauses   |-> <<>>,
     total_clauses       |-> Len(clauses) + 1,
     high_risk_count     |-> 0,
     medium_risk_count   |-> 0,
     low_risk_count      |-> 0]

\* lines 417-427
UnknownSummary ==
    [clause_risks        |-> <<>>,
     contract_risk_score |-> [num |-> 0, den |-> 1],
     contract_risk_level |-> "Unknown",
     risk_distribution   |-> [l \in {"Low", "Medium", "High"} |-> 0],
     top_risky_clauses   |-> <<>>,
     total_clauses       |-> 0,
     high_risk_count     |-> 0,
     medium_risk_count   |-> 0,
     low_risk_count      |-> 0]

\* the encode calls made once clause has been assessed: none when the clause
\* has no text (line 436 raises before the call)
EncodesAfter(clause, enc) ==
    IF "text" \in DOMAIN clause THEN Append(encodes, enc) ELSE encodes

\* lines 381-383: the call has set up its locals
InitAssess ==
    /\ pc = "assess_loop"
    /\ clauses = <<>>
    /\ encodes = <<>>
    /\ clause_risks = <<>>
    /\ total_risk_score = 0
    /\ risk_counts = [l \in {"Low", "Medium", "High"} |-> 0]
    /\ result = NoResult
    /\ exc = "none"
    /\ raw_clauses = <<>>
    /\ results = <<>>
    /\ doc_text = ""
    /\ args = <<>>
    /\ calls = <<>>
    /\ models = MODELS
    /\ embeddings = EXEMPLARS
    /\ cache = {}

\* lines 385-389: one iteration of the loop that completes
AssessClause ==
    /\ pc = "assess_loop"
    /\ Len(clauses) < MaxClauses
    /\ \E inp \in RiskInputs :
         LET clause          == [id |-> Len(clauses) + 1] @@ inp.clause
             risk_assessment == _assess_clause_risk(clause, inp.enc)
         IN  /\ ~IsException(risk_assessment)
             /\ clauses' = Append(clauses, clause)
             /\ encodes' = EncodesAfter(clause, inp.enc)
             /\ clause_risks' = Append(clause_risks, risk_assessment)
             /\ total_risk_score' = total_risk_score + risk_assessment.risk_score
             /\ risk_counts' = [risk_counts EXCEPT ![risk_assessment.risk_level] = @ + 1]
    /\ UNCHANGED <<pc, result, exc, raw_clauses, results>>
    /\ UNCHANGED <<doc_text, args, calls, models, embeddings, cache>>

\* lines 386, 415-427: the iteration raises; the handler returns
AssessClauseRaises ==
    /\ pc = "assess_loop"
    /\ Len(clauses) < MaxClauses
    /\ \E inp \in RiskInputs :
         LET clause          == [id |-> Len(clauses) + 1] @@ inp.clause
             risk_assessment == _assess_clause_risk(clause, inp.enc)
         IN  /\ IsException(risk_assessment)
             /\ clauses' = Append(clauses, clause)
             /\ encodes' = EncodesAfter(clause, inp.enc)
             /\ exc' = risk_assessment.exception
             /\ result' = UnknownSummary
             /\ pc' = "assess_returned"
    /\ UNCHANGED <<clause_risks, total_risk_score, risk_counts, raw_clauses, results>>
    /\ UNCHANGED <<doc_text, args, calls, models, embeddings, cache>>

\* lines 391-413: the argument is exhausted; aggregate and return
AssessReturn ==
    /\ pc = "assess_loop"
    /\ result' = Summary(clauses, clause_risks, total_risk_score, risk_counts)
    /\ pc' = "assess_returned"
    /\ UNCHANGED <<clauses, encodes, clause_risks, total_risk_score, risk_counts,
                   exc, raw_clauses, results>>
    /\ UNCHANGED <<doc_text, args, calls, models, embeddings, cache>>

Next ==
    \/ AssessClause
    \/ AssessClauseRaises
    \/ AssessReturn

\* one call of assess_risks
Spec == InitAssess /\ [][Next]_vars

(***************************************************************************)
(* clause_extractor.py: classify_clause                                    *)
(***************************************************************************)
\* 1.0 of a classifier score.  Keyword scores are counts over 4, 5, 6 or 7
\* keywords, similarities are hundredths.
CONE == 21 * 100

\* a similarity of h/100 as a classifier score
CSim(h) == (CONE * h) \div 100

\* CLAUSE_KEYWORDS in dict order; TEMPLATE_CLAUSES has the same keys in the
\* same order
CLAUSE_KEYWORDS == <<
    [name |-> "termination",
     keywords |-> <<"terminate", "termination", "end agreement", "expire", "dissolution", "cancel">>],
    [name |-> "payment",
     keywords |-> <<"payment", "fee", "cost", "invoice", "billing", "remuneration", "compensation">>],
    [name |-> "liability",
     keywords |-> <<"liability", "liable", "damages", "indemnify", "indemnification", "harm">>],
    [name |-> "confidentiality",
     keywords |-> <<"confidential", "non-disclosure", "proprietary", "trade secret", "nda">>],
    [name |-> "intellectual_property",
     keywords |-> <<"intellectual property", "ip", "patent", "trademark", "copyright", "license">>],
    [name |-> "force_majeure",
     keywords |-> <<"force majeure", "act of god", "unforeseeable", "beyond control">>],
    [name |-> "governing_law",
     keywords |-> <<"governing law", "jurisdiction", "applicable law", "courts", "venue">>],
    [name |-> "warranty",
     keywords |-> <<"warranty", "guarantee", "warrants", "represents", "assurance">>],
    [name |-> "dispute_resolution",
     keywords |-> <<"dispute", "arbitration", "mediation", "litigation", "resolution">>],
    [name |-> "renewal",
     keywords |-> <<"renewal", "renew", "extend", "automatic", "term">>]
>>

\* sum(text_lower.count(k) for k in keywords[1..n])
RECURSIVE SumCounts(_, _, _)
SumCounts(text_lower, keywords, n) ==
    IF n = 0 THEN 0
    ELSE SumCounts(text_lower, keywords, n - 1) + count(text_lower, keywords[n])

\* lines 105-108: the score of each category, in dict order
keyword_scores(text_lower) ==
    [i \in 1..Len(CLAUSE_KEYWORDS) |->
        LET keywords == CLAUSE_KEYWORDS[i].keywords
        IN  (CONE * SumCounts(text_lower, keywords, Len(keywords))) \div Len(keywords)]

\* keyword_scores(text.lower()) of every input text, evaluated once
KEYWORD_SCORES == [t \in TEXTS |-> keyword_scores(lower(t))]

\* max(d, key=d.get): the first key, in dict order, whose value is the greatest
ArgMaxFirst(scores) ==
    SetMin({i \in 1..Len(scores) : \A j \in 1..Len(scores) : scores[j] <= scores[i]})

\* str.replace(old, new) for single characters
replace(s, old, new) ==
    [i \in 1..Len(s) |-> IF CharAt(s, i) = old THEN new ELSE CharAt(s, i)]

\* the character str.title() puts at position i: a letter is upper case when
\* no letter precedes it, lower case otherwise
TitleChar(s, i) ==
    LET c == CharAt(s, i)
    IN  IF ~IsAlpha(c) THEN c
        ELSE IF i = 1 \/ ~IsAlpha(CharAt(s, i - 1)) THEN UpperChar(c)
        ELSE LowerChar(c)

RECURSIVE TitleRange(_, _, _)
TitleRange(s, i, j) ==
    IF i > j THEN ""
    ELSE IF i = j THEN TitleChar(s, i)
    ELSE LET m == (i + j) \div 2
         IN  TitleRange(s, i, m) \o TitleRange(s, m + 1, j)

\* str.title()
title(s) == TitleRange(s, 1, Len(s))

RECURSIVE Concat(_, _)
\* "".join(chars[1..n])
Concat(chars, n) == IF n = 0 THEN "" ELSE Concat(chars, n - 1) \o chars[n]

\* the title case alone, the underscores kept
DisplayNameUnderscored(final_type) == title(final_type)

\* line 130: final_type.replace("_", " ").title()
DisplayName(final_type) ==
    LET spaced == replace(final_type, "_", " ")
    IN  title(Concat(spaced, Len(spaced)))

\* round(x, 3) of a classifier score, in thousandths (no score is a tie)
Round3(x) == (2000 * x + CONE) \div (2 * CONE)

\* ties going to the semantic signal
FinalTypeTiesToSemantic(best_kw, kw_score, best_sem, sem_score) ==
    IF 10 * kw_score > 3 * CONE /\ 100 * sem_score > 65 * CONE
    THEN (IF kw_score > sem_score THEN best_kw ELSE best_sem)
    ELSE IF 10 * sem_score > 7 * CONE THEN best_sem
    ELSE best_kw

\* lines 122-127
FinalType(best_kw, kw_score, best_sem, sem_score) ==
    IF 10 * kw_score > 3 * CONE /\ 100 * sem_score > 65 * CONE
    THEN (IF kw_score >= sem_score THEN best_kw ELSE best_sem)
    ELSE IF 10 * sem_score > 7 * CONE THEN best_sem
    ELSE best_kw

\* the semantic score alone
ConfidenceSemanticOnly(kw_score, sem_score) == Round3(sem_score)

\* lines 129-130
Confidence(kw_score, sem_score) == Round3(Max(kw_score, sem_score))

\* text: the argument; enc: what the embedding call of line 114 does.
\* Returns (clause_type, confidence), or the exception that leaves the function.
classify_clause(text, enc) ==
    LET scores  == KEYWORD_SCORES[text]
        best_kw == ArgMaxFirst(scores)
        kw_score == scores[best_kw]
    IN  IF enc.raises THEN Raise("EncodeError")
        ELSE
        LET similarities == [i \in 1..Len(CLAUSE_KEYWORDS) |-> CSim(enc.similarities[i])]
            best_sem     == ArgMaxFirst(similarities)
            sem_score    == similarities[best_sem]
            final_type   == FinalType(best_kw, kw_score, best_sem, sem_score)
        IN  [type       |-> DisplayName(CLAUSE_KEYWORDS[final_type].name),
             confidence |-> Confidence(kw_score, sem_score)]


(***************************************************************************)
(* One call of _assess_clause_risk, over a wide set of arguments           *)
(***************************************************************************)
\* values of a clause dict's "type" (the classifier's names, and others)
TypeNames == {"Liability", "Indemnification", "Termination", "Renewal", "Payment",
              "Confidentiality", "Dispute Resolution", "Warranty", "Unclassified"}

\* the argument of the call: with a type, or without the key
ClauseArgs ==
    {[id |-> 1, text |-> t, type |-> PyStr(ty)] : t \in TEXTS, ty \in TypeNames}
        \cup {[id |-> 1, text |-> t] : t \in TEXTS}

\* seven similarities whose maximum m stands at position k
SimVector(k, m) == [i \in 1..7 |-> IF i = k THEN m ELSE m - 25]

ClauseEncs ==
    {EncodeRaises} \cup
    {Similarities(SimVector(k, m)) :
        k \in {1, 7}, m \in {-10, 20, 69, 70, 71, 74, 75, 76, 89, 90, 91, 96, 100}}

InitClause ==
    /\ pc = "clause_call"
    /\ clauses \in {<<c>> : c \in ClauseArgs}
    /\ encodes = <<>>
    /\ clause_risks = <<>>
    /\ total_risk_score = 0
    /\ risk_counts = [l \in {"Low", "Medium", "High"} |-> 0]
    /\ result = NoResult
    /\ exc = "none"
    /\ raw_clauses = <<>>
    /\ results = <<>>
    /\ doc_text = ""
    /\ args = <<>>
    /\ calls = <<>>
    /\ models = MODELS
    /\ embeddings = EXEMPLARS
    /\ cache = {}

\* lines 432-490
ScoreClause ==
    /\ pc = "clause_call"
    /\ \E enc \in ClauseEncs :
         /\ encodes' = EncodesAfter(clauses[1], enc)
         /\ result' = _assess_clause_risk(clauses[1], enc)
    /\ pc' = "clause_returned"
    /\ UNCHANGED <<clauses, clause_risks, total_risk_score, risk_counts,
                   exc, raw_clauses, results>>
    /\ UNCHANGED <<doc_text, args, calls, models, embeddings, cache>>

NextClause == ScoreClause

SpecClause == InitClause /\ [][NextClause]_vars

(***************************************************************************)
(* One call of classify_clause, over a wide set of arguments               *)
(***************************************************************************)
\* ten similarities: v at category c, base elsewhere
SemVector(c, v, base) == [i \in 1..10 |-> IF i = c THEN v ELSE base]

ClassifyEncs ==
    {EncodeRaises}
        \cup {Similarities(SemVector(c, v, v - 30)) :
                c \in {1, 3, 10}, v \in {-10, 30, 65, 66, 70, 71, 80, 90}}
        \cup {Similarities(SemVector(c, v, v)) : c \in {1}, v \in {-20, 80}}

InitClassify ==
    /\ pc = "classify_call"
    /\ raw_clauses \in {<<t>> : t \in TEXTS}
    /\ clauses = <<>>
    /\ encodes = <<>>
    /\ clause_risks = <<>>
    /\ total_risk_score = 0
    /\ risk_counts = [l \in {"Low", "Medium", "High"} |-> 0]
    /\ result = NoResult
    /\ exc = "none"
    /\ results = <<>>
    /\ doc_text = ""
    /\ args = <<>>
    /\ calls = <<>>
    /\ models = MODELS
    /\ embeddings = EXEMPLARS
    /\ cache = {}

\* lines 97-130, returning
ClassifyReturns ==
    /\ pc = "classify_call"
    /\ \E enc \in ClassifyEncs :
         LET classified == classify_clause(raw_clauses[1], enc)
         IN  /\ ~IsException(classified)
             /\ encodes' = <<enc>>
             /\ result' = classified
    /\ pc' = "classify_returned"
    /\ UNCHANGED <<clauses, clause_risks, total_risk_score, risk_counts, exc,
                   raw_clauses, results>>
    /\ UNCHANGED <<doc_text, args, calls, models, embeddings, cache>>

\* line 114 raises and nothing catches it
ClassifyRaises ==
    /\ pc = "classify_call"
    /\ \E enc \in ClassifyEncs :
         LET classified == classify_clause(raw_clauses[1], enc)
         IN  /\ IsException(classified)
             /\ encodes' = <<enc>>
             /\ exc' = classified.exception
    /\ pc' = "classify_raised"
    /\ UNCHANGED <<clauses, clause_risks, total_risk_score, risk_counts, result,
                   raw_clauses, results>>
    /\ UNCHANGED <<doc_text, args, calls, models, embeddings, cache>>

NextClassify ==
    \/ ClassifyReturns
    \/ ClassifyRaises

SpecClassify == InitClassify /\ [][NextClassify]_vars

(***************************************************************************)
(* clause_extractor.py: extract_clauses                                    *)
(***************************************************************************)
\* the most fragments the segmenter hands to extract_clauses
MaxFragments == 3

\* What one iteration of the loop of extract_clauses meets: the next fragment
\* of _split_into_clauses and the outcome of the embedding call made for it.
ExtractInputs ==
    {[text |-> t, enc |-> Similarities(SemVector(c, 80, 40))] :
        t \in {T_PAYMENT, T_RENEWAL, T_PLAIN90}, c \in {2, 9}}
        \cup {[text |-> t, enc |-> EncodeRaises] : t \in {T_PAYMENT, T_PLAIN90}}

\* the ids counted from 0
ClauseRecordFromZero(i, clause_text, classified) ==
    [id         |-> i - 1,
     text       |-> clause_text,
     type       |-> classified.type,
     confidence |-> classified.confidence]

\* lines 156-163: the record of the i-th fragment (its title and entities,
\* which no other field depends on, are left out)
ClauseRecord(i, clause_text, classified) ==
    [id         |-> i,
     text       |-> clause_text,
     type       |-> classified.type,
     confidence |-> classified.confidence]

\* lines 151-152
InitExtract ==
    /\ pc = "extract_loop"
    /\ raw_clauses = <<>>
    /\ results = <<>>
    /\ doc_text = ""
    /\ args = <<>>
    /\ calls = <<>>
    /\ models = MODELS
    /\ embeddings = EXEMPLARS
    /\ cache = {}
    /\ clauses = <<>>
    /\ encodes = <<>>
    /\ clause_risks = <<>>
    /\ total_risk_score = 0
    /\ risk_counts = [l \in {"Low", "Medium", "High"} |-> 0]
    /\ result = NoResult
    /\ exc = "none"

\* lines 153-163: one iteration of the loop that completes
ExtractClause ==
    /\ pc = "extract_loop"
    /\ Len(raw_clauses) < MaxFragments
    /\ \E inp \in ExtractInputs :
         LET classified == classify_clause(inp.text, inp.enc)
         IN  /\ ~IsException(classified)
             /\ raw_clauses' = Append(raw_clauses, inp.text)
             /\ encodes' = Append(encodes, inp.enc)
             /\ results' = Append(results,
                                  ClauseRecord(Len(raw_clauses) + 1, inp.text, classified))
    /\ UNCHANGED <<pc, clauses, clause_risks, total_risk_score, risk_counts, result, exc>>
    /\ UNCHANGED <<doc_text, args, calls, models, embeddings, cache>>

\* line 154: classify_clause raises; extract_clauses has no handler
ExtractClauseRaises ==
    /\ pc = "extract_loop"
    /\ Len(raw_clauses) < MaxFragments
    /\ \E inp \in ExtractInputs :
         LET classified == classify_clause(inp.text, inp.enc)
         IN  /\ IsException(classified)
             /\ raw_clauses' = Append(raw_clauses, inp.text)
             /\ encodes' = Append(encodes, inp.enc)
             /\ exc' = classified.exception
    /\ pc' = "extract_raised"
    /\ UNCHANGED <<clauses, clause_risks, total_risk_score, risk_counts, result, results>>
    /\ UNCHANGED <<doc_text, args, calls, models, embeddings, cache>>

\* line 164: the fragments are exhausted
ExtractReturn ==
    /\ pc = "extract_loop"
    /\ result' = results
    /\ pc' = "extract_returned"
    /\ UNCHANGED <<clauses, encodes, clause_risks, total_risk_score, risk_counts, exc,
                   raw_clauses, results>>
    /\ UNCHANGED <<doc_text, args, calls, models, embeddings, cache>>

NextExtract ==
    \/ ExtractClause
    \/ ExtractClauseRaises
    \/ ExtractReturn

SpecExtract == InitExtract /\ [][NextExtract]_vars

(***************************************************************************)
(* Claims                                                                  *)
(***************************************************************************)
\* C1: the record of a scored clause has
\*   risk_score = 0.5*keyword_score + 0.3*similarity_score
\*                + 0.1*length_factor + 0.1*type_boost
\* of its own sub-scores, and risk_level Low below 0.3, Medium from 0.3 and
\* below 0.6, High from 0.6.
C1_FusionAndLevel ==
    pc = "clause_returned" =>
        /\ 10 * result.risk_score =
               5 * result.keyword_score + 3 * result.similarity_score
                 + result.length_factor + result.type_boost
        /\ result.risk_level =
               IF 10 * result.risk_score < 3 * ONE THEN "Low"
               ELSE IF 10 * result.risk_score < 6 * ONE THEN "Medium"
               ELSE "High"

\* a clause scored exactly 0.3, with every sub-score in play elsewhere
C1_Witness ==
    /\ pc = "clause_returned"
    /\ 10 * result.risk_score = 3 * ONE
    /\ result.risk_level = "Medium"
    /\ result.similarity_score > 0
    /\ result.length_factor > 0

\* the clause dict has what _assess_clause_risk reads: a text, and a str type
\* if it has a type
WellFormed(clause) ==
    /\ "text" \in DOMAIN clause
    /\ "type" \in DOMAIN clause => clause.type.ty = "str"

RECURSIVE SumScores(_)
SumScores(risks) ==
    IF risks = <<>> THEN 0
    ELSE risks[Len(risks)].risk_score + SumScores(SubSeq(risks, 1, Len(risks) - 1))

HasLevel(risks, level) == \E i \in 1..Len(risks) : risks[i].risk_level = level

\* C2: when assess_risks has scored every clause, contract_risk_score is the
\* mean of the clause risk_scores (0 for no clause), plus 0.1 capped at 1.0
\* exactly when some clause is High, and contract_risk_level is the level of
\* that score.
C2_ContractScore ==
    (pc = "assess_returned" /\ exc = "none") =>
        LET risks == result.clause_risks
            n     == Len(risks)
            den   == IF n = 0 THEN 1 ELSE n
            mean  == IF n = 0 THEN 0 ELSE SumScores(risks)
            want  == IF HasLevel(risks, "High")
                     THEN Min(mean + (ONE \div 10) * den, ONE * den)
                     ELSE mean
            got   == result.contract_risk_score
        IN  /\ n = Len(clauses)
            /\ got.den >= 1
            /\ got.num * den = want * got.den
            /\ result.contract_risk_level =
                   IF 10 * want < 3 * ONE * den THEN "Low"
                   ELSE IF 10 * want < 6 * ONE * den THEN "Medium"
                   ELSE "High"

\* one High clause among Low ones: the score is mean + 0.1, below the cap
C2_Witness ==
    /\ pc = "assess_returned"
    /\ exc = "none"
    /\ Len(result.clause_risks) >= 3
    /\ Cardinality({i \in 1..Len(result.clause_risks) :
                        result.clause_risks[i].risk_level = "High"}) = 1
    /\ ~HasLevel(result.clause_risks, "Medium")
    /\ result.contract_risk_score.num * 10 =
           10 * SumScores(result.clause_risks) + ONE * Len(result.clause_risks)
    /\ result.contract_risk_score.num < ONE * result.contract_risk_score.den

\* C3: top_risky_clauses holds min(5, n) records of clause_risks, by risk_score
\* descending; no record left out scores more than a record included; records
\* of equal score keep the clause order.
C3_TopRisky ==
    (pc = "assess_returned" /\ exc = "none") =>
        LET risks == result.clause_risks
            top   == result.top_risky_clauses
            ids   == {top[i].clause_id : i \in 1..Len(top)}
        IN  /\ Len(top) = Min(5, Len(risks))
            /\ \A i \in 1..Len(top) :
                   /\ top[i].clause_id \in 1..Len(risks)
                   /\ top[i] = risks[top[i].clause_id]
            /\ Cardinality(ids) = Len(top)
            /\ \A i, j \in 1..Len(top) :
                   i < j =>
                       /\ top[i].risk_score >= top[j].risk_score
                       /\ top[i].risk_score = top[j].risk_score
                              => top[i].clause_id < top[j].clause_id
            /\ \A k \in 1..Len(risks) :
                   risks[k].clause_id \notin ids =>
                       \A i \in 1..Len(top) : risks[k].risk_score <= top[i].risk_score

\* six clauses: one is left out, and two of those kept tie out of score order
C3_Witness ==
    /\ pc = "assess_returned"
    /\ exc = "none"
    /\ Len(result.clause_risks) = 6
    /\ Len(result.top_risky_clauses) = 5
    /\ \E i \in 1..4 :
           result.top_risky_clauses[i].risk_score
               = result.top_risky_clauses[i + 1].risk_score
    /\ \E i \in 1..5 : result.top_risky_clauses[i].clause_id # i
    /\ result.top_risky_clauses[1].risk_score > result.top_risky_clauses[5].risk_score

\* C4: a clause whose embedding call raised is scored with similarity_score
\* 0.0 and its other sub-scores as usual; every clause is scored from its own
\* dict and its own call alone; and a call in which nothing else raised
\* returns the summary of all its clauses.
C4_EmbeddingFailureDegrades ==
    /\ \A j \in 1..Len(clause_risks) :
           /\ clause_risks[j] = _assess_clause_risk(clauses[j], encodes[j])
           /\ encodes[j].raises =>
                  /\ clause_risks[j].similarity_score = 0
                  /\ clause_risks[j] =
                         _assess_clause_risk(clauses[j], Similarities(<<0, 0, 0, 0, 0, 0, 0>>))
    /\ (pc = "assess_returned" /\ \A j \in 1..Len(clauses) : WellFormed(clauses[j])) =>
           /\ result.contract_risk_level # "Unknown"
           /\ result.clause_risks = clause_risks
           /\ Len(clause_risks) = Len(clauses)

\* a returned summary of three clauses, the middle one scored after its
\* embedding call raised
C4_Witness ==
    /\ pc = "assess_returned"
    /\ Len(result.clause_risks) = 3
    /\ encodes[2].raises
    /\ ~encodes[1].raises
    /\ ~encodes[3].raises
    /\ result.clause_risks[2].similarity_score = 0
    /\ result.clause_risks[2].keyword_score > 0
    /\ result.clause_risks[3].similarity_score > 0

\* C5: an exception while scoring one clause leaves the records of the other
\* clauses in the returned clause_risks.
C5_OtherClausesKept ==
    pc = "assess_returned" =>
        \A j \in 1..Len(clauses) :
            WellFormed(clauses[j]) =>
                \E i \in 1..Len(result.clause_risks) :
                    result.clause_risks[i].clause_id = clauses[j].id

\* C6: a call in which an exception was raised returns the Unknown summary,
\* and every returned summary has the same nine keys.
C6_UnknownSummary ==
    pc = "assess_returned" =>
        /\ DOMAIN result =
               {"clause_risks", "contract_risk_score", "contract_risk_level",
                "risk_distribution", "top_risky_clauses", "total_clauses",
                "high_risk_count", "medium_risk_count", "low_risk_count"}
        /\ exc # "none" =>
               /\ result.contract_risk_score = [num |-> 0, den |-> 1]
               /\ result.contract_risk_level = "Unknown"
               /\ result.risk_distribution = [Low |-> 0, Medium |-> 0, High |-> 0]
               /\ result.high_risk_count = 0
               /\ result.medium_risk_count = 0
               /\ result.low_risk_count = 0
               /\ result.total_clauses = 0
               /\ result.clause_risks = <<>>
               /\ result.top_risky_clauses = <<>>

\* the third clause raised after two were scored
C6_Witness ==
    /\ pc = "assess_returned"
    /\ exc = "AttributeError"
    /\ Len(clauses) = 3
    /\ Len(clause_risks) = 2
    /\ result.contract_risk_level = "Unknown"

\* the names classify_clause returns for the ten categories, in dict order
CategoryNames ==
    <<"Termination", "Payment", "Liability", "Confidentiality", "Intellectual Property",
      "Force Majeure", "Governing Law", "Warranty", "Dispute Resolution", "Renewal">>

\* the first position of the greatest value of a sequence
FirstMax(seq) ==
    CHOOSE i \in 1..Len(seq) :
        /\ \A j \in 1..Len(seq) : seq[j] <= seq[i]
        /\ \A j \in 1..(i - 1) : seq[j] < seq[i]

\* C7: classify_clause returns best_keyword or best_semantic by the stated
\* precedence over kw_score and sem_score (a tie of the two going to the
\* keyword), and confidence = max(kw_score, sem_score) rounded to 3 decimals,
\* which may exceed 1.
C7_ClassifyPrecedence ==
    pc = "classify_returned" =>
        LET kws           == KEYWORD_SCORES[raw_clauses[1]]
            sems          == [i \in 1..10 |-> (CONE * encodes[1].similarities[i]) \div 100]
            best_keyword  == FirstMax(kws)
            best_semantic == FirstMax(sems)
            kw_score      == kws[best_keyword]
            sem_score     == sems[best_semantic]
            best          == IF 100 * kw_score > 30 * CONE /\ 100 * sem_score > 65 * CONE
                             THEN (IF kw_score >= sem_score THEN best_keyword
                                   ELSE best_semantic)
                             ELSE IF 100 * sem_score > 70 * CONE THEN best_semantic
                             ELSE best_keyword
            top           == IF kw_score >= sem_score THEN kw_score ELSE sem_score
        IN  /\ result.type = CategoryNames[best]
            \* |1000 * top/CONE - confidence| <= 1/2
            /\ 2 * (1000 * top - CONE * result.confidence) <= CONE
            /\ 2 * (CONE * result.confidence - 1000 * top) <= CONE

\* the two signals tie above both thresholds and name different categories;
\* the keyword's category is returned
C7_Witness ==
    /\ pc = "classify_returned"
    /\ raw_clauses[1] = T_VENUE
    /\ encodes[1].similarities[3] = 80
    /\ encodes[1].similarities[7] < 80
    /\ result.type = "Governing Law"
    /\ result.confidence = 800

\* C8: classify_clause returns one of the ten category names (or the residual
\* one) and a confidence >= 0.
C8_ClosedSetAndConfidence ==
    pc = "classify_returned" =>
        /\ result.type \in
               {"Termination", "Payment", "Liability", "Confidentiality",
                "Intellectual Property", "Force Majeure", "Governing Law", "Warranty",
                "Dispute Resolution", "Renewal", "Unclassified"}
        /\ result.confidence >= 0

\* no keyword of any category in the text, every similarity negative
C8_Witness ==
    /\ pc = "classify_returned"
    /\ \A i \in 1..10 : KEYWORD_SCORES[raw_clauses[1]][i] = 0
    /\ \A i \in 1..10 : encodes[1].similarities[i] < 0
    /\ result.confidence = 0

\* C9: when the embedding call made for a fragment raises, extract_clauses
\* does not raise: the fragment gets its record, typed by the keyword signal
\* alone, and so does every other fragment.
C9_EmbeddingFailureCaught ==
    /\ pc # "extract_raised"
    /\ \A j \in 1..Len(encodes) :
           encodes[j].raises =>
               /\ j <= Len(results)
               /\ results[j].type = CategoryNames[FirstMax(KEYWORD_SCORES[raw_clauses[j]])]
    /\ pc = "extract_returned" => Len(result) = Len(raw_clauses)

\* C10: the records extract_clauses returns carry the ids 1..n in order, n
\* the number of fragments of the segmenter, each record holding its
\* fragment.
C10_SequentialIds ==
    /\ \A i \in 1..Len(results) :
           /\ results[i].id = i
           /\ results[i].text = raw_clauses[i]
    /\ pc = "extract_returned" =>
           /\ Len(result) = Len(raw_clauses)
           /\ \A i \in 1..Len(result) :
                  /\ result[i].id = i
                  /\ result[i].text = raw_clauses[i]

\* three fragments, three records
C10_Witness ==
    /\ pc = "extract_returned"
    /\ Len(raw_clauses) = 3
    /\ Len(result) = 3
    /\ result[3].id = 3
    /\ result[1].text # result[2].text

(***************************************************************************)
(* clause_extractor.py: _split_into_clauses                                *)
(***************************************************************************)
\* \s of the patterns, over the characters the modelled texts use
IsSpace(c) == c \in {" ", "\n", "\t"}
IsUpper(c) == c # "" /\ InChars(c, ASCII_UPPER)
IsDigit(c) == c # "" /\ InChars(c, DIGITS)
IsUpperOrSpace(c) == IsUpper(c) \/ IsSpace(c)

\* s[i] where there is one, "" past either end
At(s, i) == IF i >= 1 /\ i <= Len(s) THEN CharAt(s, i) ELSE ""

\* the characters of \s, of [ \t], of [A-Z\s] and of [.!?]
WHITESPACE == " \n\t"
BLANKS == " \t"
UPPER_OR_SPACE == ASCII_UPPER \o WHITESPACE
TERMINATORS == ".!?"

\* the index just past the longest run of characters of chars that starts
\* at i (i itself when s[i] is not one of them)
RunEnd(s, i, chars) ==
    SetMin({j \in i..(Len(s) + 1) : ~InChars(At(s, j), chars)})

\* str.strip(): leading and trailing whitespace removed
ws_strip(s) == strip(s, " \n\t")

\* ":?\s" tried at j: the index of the whitespace matched, 0 when it fails
ColonSpaceEnd(s, j) ==
    IF At(s, j) = ":" /\ IsSpace(At(s, j + 1)) THEN j + 1
    ELSE IF IsSpace(At(s, j)) THEN j
    ELSE 0

\* "(?:\.\d+)*" taken greedily from q
RECURSIVE DottedGroupsEnd(_, _)
DottedGroupsEnd(s, q) ==
    IF At(s, q) = "." /\ IsDigit(At(s, q + 1))
    THEN DottedGroupsEnd(s, RunEnd(s, q + 1, DIGITS))
    ELSE q

\* "\d+(?:\.\d+)*\.:?\s" at p: the last index matched, 0 when it fails.  A
\* shorter digit run or fewer groups leave a digit where "." or "\s" must
\* be, so only the greedy reading can match.
NumberedHeadingEnd(s, p) ==
    IF ~IsDigit(At(s, p)) THEN 0
    ELSE LET q == DottedGroupsEnd(s, RunEnd(s, p, DIGITS))
         IN  IF At(s, q) = "." THEN ColonSpaceEnd(s, q + 1) ELSE 0

\* "[A-Z][A-Z\s]+:?\s" at p: the run is taken greedily; when ":?\s" fails
\* after it the run gives characters back until the one given back last
\* is whitespace, and at least one character stays in the run.
UpperHeadingEnd(s, p) ==
    IF ~IsUpper(At(s, p)) THEN 0
    ELSE LET r     == RunEnd(s, p + 1, UPPER_OR_SPACE)
             full  == IF r > p + 1 THEN ColonSpaceEnd(s, r) ELSE 0
             given == {k \in (p + 2)..(r - 1) : IsSpace(At(s, k))}
         IN  IF full # 0 THEN full
             ELSE IF given # {} THEN SetMax(given)
             ELSE 0

\* heading_pattern (line 74) at p: "(?m)^" holds at the start of the text
\* and after a newline
HeadingEnd(s, p) ==
    IF ~(p = 1 \/ At(s, p - 1) = "\n") THEN 0
    ELSE IF IsDigit(At(s, p)) THEN NumberedHeadingEnd(s, p)
    ELSE UpperHeadingEnd(s, p)

\* re.split(heading_pattern, text) from index i on (line 75)
RECURSIVE SplitFrom(_, _)
SplitFrom(s, i) ==
    LET starts == {p \in i..Len(s) : HeadingEnd(s, p) # 0}
    IN  IF starts = {} THEN <<SubSeq(s, i, Len(s))>>
        ELSE LET p == SetMin(starts)
             IN  <<SubSeq(s, i, p - 1)>> \o SplitFrom(s, HeadingEnd(s, p) + 1)

re_split_headings(s) == SplitFrom(s, 1)

\* lines 78-81: the trimmed parts longer than 40 characters
RECURSIVE StructuralClauses(_, _)
StructuralClauses(parts, n) ==
    IF n = 0 THEN <<>>
    ELSE LET chunk == ws_strip(parts[n])
         IN  IF Len(chunk) > 40
             THEN Append(StructuralClauses(parts, n - 1), chunk)
             ELSE StructuralClauses(parts, n - 1)

\* " ".join(buffer)
RECURSIVE JoinSpace(_, _)
JoinSpace(buffer, n) ==
    IF n = 0 THEN ""
    ELSE IF n = 1 THEN buffer[1]
    ELSE JoinSpace(buffer, n - 1) \o " " \o buffer[n]

\* sum(len(s) for s in buffer)
RECURSIVE SumLen(_, _)
SumLen(buffer, n) == IF n = 0 THEN 0 ELSE SumLen(buffer, n - 1) + Len(buffer[n])

\* the buffer flushed as soon as it holds 250 characters
RECURSIVE SentenceGroupsFrom250(_, _, _, _)
SentenceGroupsFrom250(sents, i, buffer, grouped) ==
    IF i > Len(sents)
    THEN IF buffer # <<>>
         THEN Append(grouped, ws_strip(JoinSpace(buffer, Len(buffer))))
         ELSE grouped
    ELSE LET buffer2 == Append(buffer, sents[i])
         IN  IF SumLen(buffer2, Len(buffer2)) >= 250
             THEN SentenceGroupsFrom250(sents, i + 1, <<>>,
                      Append(grouped, ws_strip(JoinSpace(buffer2, Len(buffer2)))))
             ELSE SentenceGroupsFrom250(sents, i + 1, buffer2, grouped)

\* lines 86-93: the sentences from the i-th on, grouped
RECURSIVE SentenceGroups(_, _, _, _)
SentenceGroups(sents, i, buffer, grouped) ==
    IF i > Len(sents)
    THEN IF buffer # <<>>
         THEN Append(grouped, ws_strip(JoinSpace(buffer, Len(buffer))))
         ELSE grouped
    ELSE LET buffer2 == Append(buffer, sents[i])
         IN  IF SumLen(buffer2, Len(buffer2)) > 250
             THEN SentenceGroups(sents, i + 1, <<>>,
                      Append(grouped, ws_strip(JoinSpace(buffer2, Len(buffer2)))))
             ELSE SentenceGroups(sents, i + 1, buffer2, grouped)

\* lines 64-95.  sents is what nlp(text).sents yields (the texts of the
\* sentences); it is read only when the structural split keeps nothing.
_split_into_clauses(s, sents) ==
    LET parts      == re_split_headings(s)
        structural == StructuralClauses(parts, Len(parts))
    IN  IF structural # <<>> THEN structural
        ELSE SentenceGroups(sents, 1, <<>>, <<>>)

\* How many heading-and-body segments a modelled document has at most
MaxSegments == 3

\* A document is written as segments, each a heading marker followed by a
\* clause body and a newline; the marker is empty for text under no heading.
S_PAYMENT ==
    [marker |-> "1. ",
     body   |-> "Payment shall be made within 30 days of invoice receipt."]
S_TERM ==
    [marker |-> "2.1. ", body |-> "Term ends."]
S_TERMINATION ==
    [marker |-> "TERMINATION:\n",
     body   |-> "Either party may terminate this Agreement upon thirty days notice."]
S_BLANK_BODY ==
    [marker |-> "3. ", body |-> "  "]
S_BLANK ==
    [marker |-> "", body |-> " \t"]
S_FEES ==
    [marker |-> "4. ", body |-> "Fees are due monthly."]

SEGMENTS == {S_PAYMENT, S_TERM, S_TERMINATION, S_BLANK_BODY, S_BLANK}

RECURSIVE DocumentText(_, _)
DocumentText(segs, n) ==
    IF n = 0 THEN ""
    ELSE DocumentText(segs, n - 1) \o segs[n].marker \o segs[n].body \o "\n"

\* the documents: up to MaxSegments segments, and one long list of short
\* clauses (twelve lines, 300 characters)
SegmentDocs ==
    UNION {[1..n -> SEGMENTS] : n \in 0..MaxSegments}
        \cup {[i \in 1..12 |-> S_FEES]}

\* the text cut after each newline
RECURSIVE LinesFrom(_, _)
LinesFrom(s, i) ==
    IF i > Len(s) THEN <<>>
    ELSE LET ends == {j \in i..Len(s) : CharAt(s, j) = "\n"}
             e    == IF ends = {} THEN Len(s) ELSE SetMin(ends)
         IN  <<SubSeq(s, i, e)>> \o LinesFrom(s, e + 1)

\* line 85-87: what nlp(text).sents can yield.  The sentences of a spaCy
\* Doc cover all its tokens, whitespace tokens included, and a text that is
\* not empty has at least one token.  Where the pipeline cuts is its own
\* decision: the model lets it cut nowhere or after every line.
SentenceSplits(s) ==
    IF s = "" THEN {<<>>} ELSE {<<s>>, LinesFrom(s, 1)}

InitSplit ==
    /\ pc = "split_call"
    /\ \E segs \in SegmentDocs :
         /\ doc_text = DocumentText(segs, Len(segs))
         /\ \E ss \in SentenceSplits(doc_text) :
              args = [segments |-> segs, sents |-> ss]
    /\ calls = <<>>
    /\ models = MODELS
    /\ embeddings = EXEMPLARS
    /\ cache = {}
    /\ clauses = <<>>
    /\ encodes = <<>>
    /\ clause_risks = <<>>
    /\ total_risk_score = 0
    /\ risk_counts = [l \in {"Low", "Medium", "High"} |-> 0]
    /\ result = NoResult
    /\ exc = "none"
    /\ raw_clauses = <<>>
    /\ results = <<>>

\* lines 74-81, 95: the structural split keeps a fragment
SplitStructural ==
    /\ pc = "split_call"
    /\ LET parts == re_split_headings(doc_text)
       IN  /\ StructuralClauses(parts, Len(parts)) # <<>>
           /\ result' = _split_into_clauses(doc_text, args.sents)
    /\ pc' = "split_returned"
    /\ UNCHANGED <<models, embeddings, cache, clauses, encodes, clause_risks, total_risk_score, risk_counts,
                   exc, raw_clauses, results, doc_text, args, calls>>

\* lines 74-95: it keeps none and the sentences are grouped
SplitFallback ==
    /\ pc = "split_call"
    /\ LET parts == re_split_headings(doc_text)
       IN  /\ StructuralClauses(parts, Len(parts)) = <<>>
           /\ result' = _split_into_clauses(doc_text, args.sents)
    /\ calls' = <<"nlp">>
    /\ pc' = "split_returned"
    /\ UNCHANGED <<models, embeddings, cache, clauses, encodes, clause_risks, total_risk_score, risk_counts,
                   exc, raw_clauses, results, doc_text, args>>

NextSplit ==
    \/ SplitStructural
    \/ SplitFallback

\* one call of _split_into_clauses
SpecSplit == InitSplit /\ [][NextSplit]_vars

\* str.split(): the words of s from index i on
RECURSIVE WordsFrom(_, _)
WordsFrom(s, i) ==
    LET b == RunEnd(s, i, WHITESPACE)
    IN  IF b > Len(s) THEN <<>>
        ELSE LET e == SetMin({j \in b..(Len(s) + 1) : j > Len(s) \/ IsSpace(At(s, j))})
             IN  <<SubSeq(s, b, e - 1)>> \o WordsFrom(s, e)

split(s) == WordsFrom(s, 1)

(***************************************************************************)
(* C11.  Segmentation is total and emits no empty clause: on the           *)
(* structural path and on the sentence-accumulation path the call returns, *)
(* every returned clause text is longer than 0 after trimming, and an      *)
(* empty or whitespace-only input yields the empty sequence.               *)
(***************************************************************************)
C11_NoEmptyClause ==
    pc = "split_returned" =>
        /\ \A i \in 1..Len(result) : Len(ws_strip(result[i])) > 0
        /\ (ws_strip(doc_text) = "" => result = <<>>)

\* the bodies of a document, in order
Bodies(segs) == [i \in 1..Len(segs) |-> segs[i].body]

(***************************************************************************)
(* C12.  Round trip of segmentation: for a document made of heading        *)
(* markers each followed by a clause body, the returned clause texts       *)
(* joined in id order equal, after whitespace normalisation, the bodies    *)
(* of the document joined in order: no body is lost, whatever its length.  *)
(***************************************************************************)
C12_RoundTrip ==
    (/\ pc = "split_returned"
     /\ Len(args.segments) >= 1
     /\ \A i \in 1..Len(args.segments) : args.segments[i].marker # "")
    => split(JoinSpace(result, Len(result)))
         = split(JoinSpace(Bodies(args.segments), Len(args.segments)))

(***************************************************************************)
(* utils.py: clean_text, extract_clauses, chunk_text                       *)
(*                                                                         *)
(* The modelled texts are made of printable ASCII characters, newlines and *)
(* tabs.  On those, lines 144, 147 and 151 of clean_text change nothing    *)
(* (they replace other characters, "\r\n" and bullet characters).          *)
(***************************************************************************)
IsLetter(c) == c # "" /\ IsAlpha(c)
IsNewline(c) == c = "\n"
IsBlank(c) == c \in {" ", "\t"}

\* the strings f[i], ..., f[j] joined
RECURSIVE JoinRange(_, _, _)
JoinRange(f, i, j) ==
    IF i > j THEN ""
    ELSE IF i = j THEN f[i]
    ELSE LET m == (i + j) \div 2
         IN  JoinRange(f, i, m) \o JoinRange(f, m + 1, j)

\* line 148: re.sub(r"\n{3,}", "\n\n", text)
collapse_newlines(s) ==
    JoinRange([i \in 1..Len(s) |->
                  IF At(s, i) = "\n" /\ At(s, i - 1) = "\n" /\ At(s, i - 2) = "\n"
                  THEN "" ELSE At(s, i)],
              1, Len(s))

\* line 156: re.sub(r"[ \t]+", " ", text)
collapse_blanks(s) ==
    JoinRange([i \in 1..Len(s) |->
                  IF IsBlank(At(s, i))
                  THEN IF IsBlank(At(s, i - 1)) THEN "" ELSE " "
                  ELSE At(s, i)],
              1, Len(s))

\* "(?:\d+\.){1,k}" taken greedily from p: the last index matched, p - 1
\* when not even one repetition matches
RECURSIVE DotRepsEnd(_, _, _)
DotRepsEnd(s, p, k) ==
    IF k = 0 \/ ~IsDigit(At(s, p)) THEN p - 1
    ELSE LET d == RunEnd(s, p, DIGITS)
         IN  IF At(s, d) = "." THEN DotRepsEnd(s, d + 1, k - 1) ELSE p - 1

\* "Section\s+\d+" (ignoring case) at p: the last index matched, 0 if none
SectionEnd(s, p) ==
    IF p + 6 <= Len(s) /\ lower(SubSeq(s, p, p + 6)) = "section" /\ IsSpace(At(s, p + 7))
    THEN LET d == RunEnd(s, p + 7, WHITESPACE)
         IN  IF IsDigit(At(s, d)) THEN RunEnd(s, d, DIGITS) - 1 ELSE 0
    ELSE 0

\* "(?:\d+\.){1,3}|\d+\)|[A-Za-z]\)" at p, and "|Section\s+\d+" when
\* section is TRUE: the last index matched, 0 if none.  The character
\* after the numbering must be one of follow; a shorter reading of
\* the numbering leaves a digit there, so only the greedy one can match.
NumberingEnd(s, p, section, follow) ==
    LET reps   == DotRepsEnd(s, p, 3)
        digits == RunEnd(s, p, DIGITS)
        e == IF reps >= p THEN reps
             ELSE IF IsDigit(At(s, p)) /\ At(s, digits) = ")" THEN digits
             ELSE IF IsLetter(At(s, p)) /\ At(s, p + 1) = ")" THEN p + 1
             ELSE IF section THEN SectionEnd(s, p)
             ELSE 0
    IN  IF e # 0 /\ InChars(At(s, e + 1), follow) THEN e ELSE 0

\* lines 152-153: the pattern "^\s*(numbering)\s+" (MULTILINE) at p.
\* [from, to] is the numbering, last the last index matched; last is 0 when
\* there is no match at p.
LineNumberingAt(s, p) ==
    IF ~(p = 1 \/ At(s, p - 1) = "\n") THEN [from |-> 0, to |-> 0, last |-> 0]
    ELSE LET q == RunEnd(s, p, WHITESPACE)
             e == NumberingEnd(s, q, FALSE, WHITESPACE)
         IN  IF e = 0 THEN [from |-> 0, to |-> 0, last |-> 0]
             ELSE [from |-> q, to |-> e, last |-> RunEnd(s, e + 1, WHITESPACE) - 1]

\* lines 152-153: re.sub(pattern, r"\1 ", text) from index i on
RECURSIVE NormalizeNumberingFrom(_, _)
NormalizeNumberingFrom(s, i) ==
    LET starts == {p \in i..Len(s) : LineNumberingAt(s, p).last # 0}
    IN  IF starts = {} THEN SubSeq(s, i, Len(s))
        ELSE LET p == SetMin(starts)
                 m == LineNumberingAt(s, p)
             IN  SubSeq(s, i, p - 1) \o SubSeq(s, m.from, m.to) \o " "
                     \o NormalizeNumberingFrom(s, m.last + 1)

\* lines 137-158
clean_text(s) ==
    ws_strip(collapse_blanks(NormalizeNumberingFrom(collapse_newlines(s), 1)))

\* clause_pattern (lines 171-174) at p: [to] ends the numbering group,
\* [last] the match with its "[ \t]+"; last is 0 when there is no match
ClausePatternAt(s, p) ==
    LET e == NumberingEnd(s, p, TRUE, BLANKS)
    IN  IF e = 0 THEN [to |-> 0, last |-> 0]
        ELSE [to |-> e, last |-> RunEnd(s, e + 1, BLANKS) - 1]

\* line 176: clause_pattern.split(text) from index i on; the pattern has
\* one group, so each numbering is a part of its own
RECURSIVE ClausePartsFrom(_, _)
ClausePartsFrom(s, i) ==
    LET starts == {p \in i..Len(s) : ClausePatternAt(s, p).last # 0}
    IN  IF starts = {} THEN <<SubSeq(s, i, Len(s))>>
        ELSE LET p == SetMin(starts)
                 m == ClausePatternAt(s, p)
             IN  <<SubSeq(s, i, p - 1), SubSeq(s, p, m.to)>>
                     \o ClausePartsFrom(s, m.last + 1)

\* lines 181-193: the loop over the first n parts; its locals
RECURSIVE ClauseLoop(_, _)
ClauseLoop(parts, n) ==
    IF n = 0
    THEN [clauses |-> <<>>, temp_text |-> "", clause_id |-> 1, numbering |-> PyNone]
    ELSE LET st   == ClauseLoop(parts, n - 1)
             part == parts[n]
         IN  IF ClausePatternAt(part, 1).last # 0
             THEN IF ws_strip(st.temp_text) # ""
                  THEN [clauses   |-> Append(st.clauses,
                                         [id        |-> st.clause_id,
                                          numbering |-> st.numbering,
                                          text      |-> ws_strip(st.temp_text)]),
                        temp_text |-> "",
                        clause_id |-> st.clause_id + 1,
                        numbering |-> PyStr(ws_strip(part))]
                  ELSE [st EXCEPT !.numbering = PyStr(ws_strip(part))]
             ELSE [st EXCEPT !.temp_text = st.temp_text \o part]

\* the loop over all the parts
ClauseLoopAll(parts) == ClauseLoop(parts, Len(parts))

\* lines 195-202: the text left after the loop is the last clause
ClauseLoopEnd(st) ==
    IF ws_strip(st.temp_text) # ""
    THEN Append(st.clauses, [id        |-> st.clause_id,
                             numbering |-> st.numbering,
                             text      |-> ws_strip(st.temp_text)])
    ELSE st.clauses

\* utils.extract_clauses, lines 165-202
utils_extract_clauses(s) == ClauseLoopEnd(ClauseLoopAll(ClausePartsFrom(s, 1)))

\* clause_text[:max_chars]
Prefix(s, n) == SubSeq(s, 1, Min(n, Len(s)))

\* lines 217-227 with the truncation of line 224 left out
ChunkStepUntruncated(st, clause_text, max_chars) ==
    IF Len(st.current_chunk) + Len(clause_text) + 2 > max_chars
    THEN IF st.current_chunk # ""
         THEN [chunks        |-> Append(st.chunks, ws_strip(st.current_chunk)),
               current_chunk |-> clause_text]
         ELSE [st EXCEPT !.chunks = Append(st.chunks, clause_text)]
    ELSE [st EXCEPT !.current_chunk =
              IF st.current_chunk # "" THEN st.current_chunk \o "\n\n" \o clause_text
              ELSE clause_text]

\* lines 217-227 with line 224 cutting one character short
ChunkStepCutShort(st, clause_text, max_chars) ==
    IF Len(st.current_chunk) + Len(clause_text) + 2 > max_chars
    THEN IF st.current_chunk # ""
         THEN [chunks        |-> Append(st.chunks, ws_strip(st.current_chunk)),
               current_chunk |-> clause_text]
         ELSE [st EXCEPT !.chunks = Append(st.chunks, Prefix(clause_text, max_chars - 1))]
    ELSE [st EXCEPT !.current_chunk =
              IF st.current_chunk # "" THEN st.current_chunk \o "\n\n" \o clause_text
              ELSE clause_text]

\* lines 217-227: one iteration of the loop of chunk_text.  The rest of an
\* oversized clause (line 225) is assigned and never read again.
ChunkStep(st, clause_text, max_chars) ==
    IF Len(st.current_chunk) + Len(clause_text) + 2 > max_chars
    THEN IF st.current_chunk # ""
         THEN [chunks        |-> Append(st.chunks, ws_strip(st.current_chunk)),
               current_chunk |-> clause_text]
         ELSE [st EXCEPT !.chunks = Append(st.chunks, Prefix(clause_text, max_chars))]
    ELSE [st EXCEPT !.current_chunk =
              IF st.current_chunk # "" THEN st.current_chunk \o "\n\n" \o clause_text
              ELSE clause_text]

RECURSIVE ChunkLoop(_, _, _)
ChunkLoop(cls, n, max_chars) ==
    IF n = 0 THEN [chunks |-> <<>>, current_chunk |-> ""]
    ELSE ChunkStep(ChunkLoop(cls, n - 1, max_chars), cls[n].text, max_chars)

\* the loop over all the clauses
ChunkLoopAll(cls, max_chars) == ChunkLoop(cls, Len(cls), max_chars)

\* lines 229-232: the chunk being built is the last one
ChunkLoopEnd(st) ==
    IF st.current_chunk # ""
    THEN Append(st.chunks, ws_strip(st.current_chunk))
    ELSE st.chunks

\* lines 209-232
chunk_text(s, max_chars) == ChunkLoopEnd(ChunkLoopAll(utils_extract_clauses(s), max_chars))

(***************************************************************************)
(* summarizer.py                                                           *)
(*                                                                         *)
(* The three model capabilities answer as the record a says:               *)
(*   a.tokenizer  "raises", "fits" (at most 1024 tokens) or "over"         *)
(*   a.condense   "raises" or "ok"                                         *)
(*   a.enc        [raises |-> TRUE], or the PageRank scores of the         *)
(*                sentences, [raises |-> FALSE, scores |-> <<...>>]        *)
(* A function of the module is an operator that yields [out, calls]: what  *)
(* it returns and the capabilities it invoked, in order.                   *)
(***************************************************************************)
IsTerminator(c) == c \in {".", "!", "?"}

\* re.split(r'[.!?]+', text) from index i on
RECURSIVE SentencePiecesFrom(_, _)
SentencePiecesFrom(s, i) ==
    LET stops == {p \in i..Len(s) : IsTerminator(At(s, p))}
    IN  IF stops = {} THEN <<SubSeq(s, i, Len(s))>>
        ELSE LET p == SetMin(stops)
             IN  <<SubSeq(s, i, p - 1)>>
                     \o SentencePiecesFrom(s, RunEnd(s, p, TERMINATORS))

re_split_sentences(s) == SentencePiecesFrom(s, 1)

\* line 206: the trimmed pieces longer than 10 characters
RECURSIVE CandidateSentences(_, _)
CandidateSentences(pieces, n) ==
    IF n = 0 THEN <<>>
    ELSE LET piece == ws_strip(pieces[n])
         IN  IF Len(piece) > 10
             THEN Append(CandidateSentences(pieces, n - 1), piece)
             ELSE CandidateSentences(pieces, n - 1)

\* line 217: sorted(scores.items(), key=lambda x: x[1], reverse=True) over
\* the first n sentences; the sort is stable
RECURSIVE RankedIndices(_, _)
RankedIndices(scores, n) ==
    IF n = 0 THEN <<>>
    ELSE LET ranked == RankedIndices(scores, n - 1)
             before == {k \in 1..Len(ranked) : scores[ranked[k]] >= scores[n]}
             at     == IF before = {} THEN 0 ELSE SetMax(before)
         IN  SubSeq(ranked, 1, at) \o <<n>> \o SubSeq(ranked, at + 1, Len(ranked))

\* sorted(...) of a set of indices
RECURSIVE SortedIndices(_)
SortedIndices(S) ==
    IF S = {} THEN <<>>
    ELSE LET m == SetMin(S) IN <<m>> \o SortedIndices(S \ {m})

\* line 218: top_idx, the positions of the num_sentences best, ascending
TopIdx(ranked, num_sentences) == SortedIndices({ranked[k] : k \in 1..num_sentences})

\* line 206 over all the pieces
CandidateSentencesAll(pieces) == CandidateSentences(pieces, Len(pieces))

\* lines 205-206: the candidate sentences of the text
SplitSentences(s) == CandidateSentencesAll(re_split_sentences(s))

\* lines 207-222 returning the chosen sentences in ranked order
SelectKeySentencesRanked(sentences, num_sentences, enc) ==
    IF Len(sentences) <= num_sentences
    THEN [out |-> sentences, calls |-> <<>>]
    ELSE IF enc.raises
    THEN [out |-> Take(sentences, num_sentences), calls |-> <<"encode">>]
    ELSE [out   |-> [k \in 1..num_sentences |->
                        sentences[RankedIndices(enc.scores, Len(sentences))[k]]],
          calls |-> <<"encode">>]

\* lines 207-222.  An exception of encode or of pagerank is caught at 220.
SelectKeySentences(sentences, num_sentences, enc) ==
    IF Len(sentences) <= num_sentences
    THEN [out |-> sentences, calls |-> <<>>]
    ELSE IF enc.raises
    THEN [out |-> Take(sentences, num_sentences), calls |-> <<"encode">>]
    ELSE [out   |-> [k \in 1..num_sentences |->
                        sentences[TopIdx(RankedIndices(enc.scores, Len(sentences)),
                                         num_sentences)[k]]],
          calls |-> <<"encode">>]

\* lines 202-222
_extract_key_sentences(s, num_sentences, enc) ==
    SelectKeySentences(SplitSentences(s), num_sentences, enc)

\* " ".join(...) of what _extract_key_sentences returned
JoinKeySentences(key) == [out |-> JoinSpace(key.out, Len(key.out)), calls |-> key.calls]

\* " ".join(_extract_key_sentences(text, k))
ExtractiveSummary(s, k, enc) == JoinKeySentences(_extract_key_sentences(s, k, enc))

\* lines 225-228.  re.split never returns an empty list, so the text[:100]
\* of line 228 is never taken.
_first_sentence_fallback(s) == ws_strip(re_split_sentences(s)[1])

\* what the condensation model answers for a text: some string that
\* depends on the text and on the length asked for
Condensed(s, max_length) ==
    "<" \o ToString(max_length) \o "> " \o Prefix(s, 12)

\* lines 179-186, the model answering
_abstractive_single_pass(s, max_length) == ws_strip(Condensed(s, max_length))

\* lines 189-199
_abstractive_chunk(s, a) ==
    IF a.condense = "raises" THEN _first_sentence_fallback(s)
    ELSE ws_strip(Condensed(s, 128))

\* the model calls made before r was computed, put before those of r
AfterCalls(before, r) == [out |-> r.out, calls |-> before \o r.calls]

\* line 162
ChunkSummaries(chunks, a) == [k \in 1..Len(chunks) |-> _abstractive_chunk(chunks[k], a)]

\* the condensation calls of line 162, one per chunk
ChunkCalls(n) == <<"tokenizer">> \o [k \in 1..n |-> "condense"]

\* lines 164-172: combined, the summaries of the n chunks joined
Recombine(combined, n, max_length, a) ==
    IF Len(split(combined)) > max_length \div 2
    THEN IF a.condense = "raises"
         THEN AfterCalls(ChunkCalls(n) \o <<"condense">>,
                         ExtractiveSummary(combined, 3, a.enc))
         ELSE [out   |-> _abstractive_single_pass(combined, max_length),
               calls |-> ChunkCalls(n) \o <<"condense">>]
    ELSE [out |-> ws_strip(combined), calls |-> ChunkCalls(n)]

\* lines 162-172 on the chunks
SummarizeChunkList(chunks, max_length, a) ==
    Recombine(JoinSpace(ChunkSummaries(chunks, a), Len(chunks)), Len(chunks), max_length, a)

\* lines 161-172: the text is over the token limit
SummarizeChunks(s, max_length, a) == SummarizeChunkList(chunk_text(s, 3000), max_length, a)

\* lines 149-176
safe_abstractive_summarize(s, max_length, a) ==
    IF Len(split(s)) < 20 THEN [out |-> ws_strip(s), calls |-> <<>>]
    ELSE IF a.tokenizer = "raises"
    THEN AfterCalls(<<"tokenizer">>, ExtractiveSummary(s, 3, a.enc))
    ELSE IF a.tokenizer = "fits"
    THEN IF a.condense = "raises"
         THEN AfterCalls(<<"tokenizer", "condense">>, ExtractiveSummary(s, 3, a.enc))
         ELSE [out   |-> _abstractive_single_pass(s, max_length),
               calls |-> <<"tokenizer", "condense">>]
    ELSE SummarizeChunks(s, max_length, a)

\* The documents and clause texts summarized in the model
D_SHORT ==
    "Payment is due soon. Either party may terminate."
D_SHORT4 ==
    "Payment is due soon. Either party may terminate. Notices go "
        \o "by mail. Courts settle disputes."
D_SEVEN ==
    "Payment is due within thirty days. The contractor shall deli"
        \o "ver the software. Either party may end this agreement. Confi"
        \o "dential data is kept five years. The company owns all work p"
        \o "roduct. Notices are sent by registered mail. Disputes go to "
        \o "the courts."
D_TEN ==
    "The buyer pays the price. The seller ships the goods. Title "
        \o "passes on delivery. Risk passes on shipment. Notices are sen"
        \o "t by mail. Fees are due monthly. Interest accrues on late su"
        \o "ms. Either party may terminate. Disputes go to the courts. T"
        \o "his agreement is the whole deal."
D_NOSTOP ==
    "the supplier shall deliver the goods to the buyer at the pla"
        \o "ce named in the order and the buyer shall pay the price name"
        \o "d in the order"
D_NUMBERED ==
    "1.   Payment is due soon.\n\n\n\n2)  Either party may terminate."
        \o "  "
D_TWO ==
    "The contractor shall deliver the software within ninety days"
        \o " of the date. Payment is due within thirty days after the in"
        \o "voice is received by the company."

SummaryTexts == {D_SHORT, D_SHORT4, D_SEVEN, D_TEN, D_NUMBERED}
ClauseTexts == {D_TWO, D_SHORT, D_NOSTOP}

\* How many clauses are handed to summarize_document at most
MaxSummaryClauses == 2

\* PageRank scores for up to twelve sentences; ties happen
ScoreVector(m, c) == [i \in 1..12 |-> (i * m + c) % 7]

SummaryEncs ==
    {[raises |-> TRUE],
     [raises |-> FALSE, scores |-> ScoreVector(5, 1)]}

Outcomes ==
    [tokenizer : {"raises", "fits", "over"}, condense : {"raises", "ok"}, enc : SummaryEncs]

Modes == {"abstractive", "extractive", "hybrid"}

\* the clause dicts handed over: records of extract_clauses
SummaryClauses ==
    {[type |-> PyStr("Payment"), text |-> D_TWO],
     [type |-> PyStr("Termination"), text |-> D_SHORT],
     [type |-> PyStr("Warranty"), text |-> D_NOSTOP]}

\* clean_text of the modelled texts
CLEAN_TEXT == [t \in SummaryTexts \cup ClauseTexts \cup {""} |-> clean_text(t)]

\* a short and a long summary, and the calls made for them in turn; the
\* exception when making one of them raised
SummaryPair(short, long) ==
    IF IsException(short) THEN short
    ELSE IF IsException(long) THEN long
    ELSE [short_summary |-> short.out, long_summary |-> long.out,
          calls |-> short.calls \o long.calls]

\* lines 68-69 and 78-79
AbstractiveSummaries(s, a) ==
    SummaryPair(safe_abstractive_summarize(s, 128, a), safe_abstractive_summarize(s, 256, a))

\* lines 72-73 and 82-83
ExtractiveSummaries(s, a) ==
    SummaryPair(ExtractiveSummary(s, 3, a.enc), ExtractiveSummary(s, 6, a.enc))

\* lines 67-83: what each mode returns of the two pairs; in hybrid mode the
\* handler of line 80 takes the extractive pair when the abstractive raised
ModeSummaries(mode, abstractive, extractive) ==
    CASE mode = "abstractive" -> abstractive
      [] mode = "extractive"  -> extractive
      [] mode = "hybrid"      -> IF IsException(abstractive) THEN extractive ELSE abstractive

\* lines 67-83: the two summaries of the cleaned text, and the calls made
MainSummaries(s, mode, a) ==
    ModeSummaries(mode, AbstractiveSummaries(s, a), ExtractiveSummaries(s, a))

\* clause.get("text", "")
ClauseTextOf(clause) == IF "text" \in DOMAIN clause THEN clause.text ELSE ""

\* lines 89-92: the attempt, or the first sentence when it raised
OrFirstSentence(attempt, clause_text) ==
    IF IsException(attempt)
    THEN [out |-> _first_sentence_fallback(clause_text), calls |-> <<>>]
    ELSE attempt

\* lines 88-92 on the cleaned text of the clause
ClauseAttempt(clause_text, a) ==
    OrFirstSentence(safe_abstractive_summarize(clause_text, 64, a), clause_text)

\* lines 93-97
ClauseEntry(clause, summary) ==
    [entry |-> [clause_id |-> clause.id, clause_type |-> clause.type,
                summary |-> summary.out],
     calls |-> summary.calls]

\* lines 88-97: the entry of one clause, and the calls made for it
ClauseSummary(clause, a) ==
    ClauseEntry(clause, ClauseAttempt(CLEAN_TEXT[ClauseTextOf(clause)], a))

InitSummarize ==
    /\ pc = "summarize_call"
    /\ doc_text \in SummaryTexts
    /\ args \in [mode : Modes, a : Outcomes]
    /\ calls = <<>>
    /\ models = MODELS
    /\ embeddings = EXEMPLARS
    /\ cache = {}
    /\ clauses = <<>>
    /\ encodes = <<>>
    /\ clause_risks = <<>>
    /\ total_risk_score = 0
    /\ risk_counts = [l \in {"Low", "Medium", "High"} |-> 0]
    /\ result = NoResult
    /\ exc = "none"
    /\ raw_clauses = <<>>
    /\ results = <<>>

\* lines 60-83: the text is cleaned and the two summaries are made; results
\* holds the dict the function is building (its local "result")
SummarizeMain ==
    /\ pc = "summarize_call"
    /\ \E main \in {MainSummaries(CLEAN_TEXT[doc_text], args.mode, args.a)} :
           /\ results' = [short_summary        |-> main.short_summary,
                          long_summary         |-> main.long_summary,
                          per_clause_summaries |-> <<>>]
           /\ calls' = main.calls
    /\ pc' = "summarize_clauses"
    /\ UNCHANGED <<models, embeddings, cache, clauses, encodes, clause_risks, total_risk_score, risk_counts,
                   result, exc, raw_clauses, doc_text, args>>

\* lines 87-97: one iteration of the loop over the clauses
SummarizeClause ==
    /\ pc = "summarize_clauses"
    /\ Len(clauses) < MaxSummaryClauses
    /\ \E c \in SummaryClauses :
         \E summary \in {ClauseSummary([id |-> Len(clauses) + 1] @@ c, args.a)} :
             /\ clauses' = Append(clauses, [id |-> Len(clauses) + 1] @@ c)
             /\ results' = [results EXCEPT !.per_clause_summaries = Append(@, summary.entry)]
             /\ calls' = calls \o summary.calls
    /\ UNCHANGED <<models, embeddings, cache, pc, encodes, clause_risks, total_risk_score, risk_counts,
                   result, exc, raw_clauses, doc_text, args>>

\* line 99
SummarizeReturn ==
    /\ pc = "summarize_clauses"
    /\ result' = results
    /\ pc' = "summarize_returned"
    /\ UNCHANGED <<models, embeddings, cache, clauses, encodes, clause_risks, total_risk_score, risk_counts,
                   exc, raw_clauses, results, doc_text, args, calls>>

NextSummarize ==
    \/ SummarizeMain
    \/ SummarizeClause
    \/ SummarizeReturn

\* one call of summarize_document
SpecSummarize == InitSummarize /\ [][NextSummarize]_vars

\* the abstractive attempt on s fails: s is long enough for the models to
\* be asked, and the tokenizer or the condensation model raises
AbstractiveFails(s, a) ==
    /\ Len(split(s)) >= 20
    /\ (a.tokenizer = "raises" \/ a.condense = "raises")

(***************************************************************************)
(* C13.  In hybrid mode, whenever the abstractive attempt fails, the short *)
(* summary is the extractive summary with 3 sentences and the long summary *)
(* the extractive summary with 6 sentences, as in extractive mode.         *)
(***************************************************************************)
C13_HybridFallback ==
    (/\ pc = "summarize_returned"
     /\ args.mode = "hybrid"
     /\ AbstractiveFails(CLEAN_TEXT[doc_text], args.a))
    => /\ result.short_summary = ExtractiveSummary(CLEAN_TEXT[doc_text], 3, args.a.enc).out
       /\ result.long_summary = ExtractiveSummary(CLEAN_TEXT[doc_text], 6, args.a.enc).out

(***************************************************************************)
(* summarizer.py: _extract_key_sentences on its own                        *)
(***************************************************************************)
ExtractiveTexts == {D_SHORT, D_SHORT4, D_SEVEN, D_TEN, D_NOSTOP, D_TWO}

ExtractiveEncs ==
    {[raises |-> TRUE]}
        \cup {[raises |-> FALSE, scores |-> ScoreVector(m, c)] : m \in 1..6, c \in 0..2}

InitExtractive ==
    /\ pc = "extractive_call"
    /\ doc_text \in ExtractiveTexts
    /\ args \in [num_sentences : {3, 6}, enc : ExtractiveEncs]
    /\ calls = <<>>
    /\ models = MODELS
    /\ embeddings = EXEMPLARS
    /\ cache = {}
    /\ clauses = <<>>
    /\ encodes = <<>>
    /\ clause_risks = <<>>
    /\ total_risk_score = 0
    /\ risk_counts = [l \in {"Low", "Medium", "High"} |-> 0]
    /\ result = NoResult
    /\ exc = "none"
    /\ raw_clauses = <<>>
    /\ results = <<>>

\* lines 202-222
ExtractKeySentences ==
    /\ pc = "extractive_call"
    /\ LET key == _extract_key_sentences(doc_text, args.num_sentences, args.enc)
       IN  /\ result' = key.out
           /\ calls' = key.calls
    /\ pc' = "extractive_returned"
    /\ UNCHANGED <<models, embeddings, cache, clauses, encodes, clause_risks, total_risk_score, risk_counts,
                   exc, raw_clauses, results, doc_text, args>>

NextExtractive == ExtractKeySentences

\* one call of _extract_key_sentences
SpecExtractive == InitExtractive /\ [][NextExtractive]_vars

\* the candidate sentences of a text, in text order
Candidates(s) ==
    LET pieces == re_split_sentences(s) IN CandidateSentences(pieces, Len(pieces))

\* the k-th smallest member of a set of positions
KthOf(I, k) == CHOOSE x \in I : Cardinality({y \in I : y < x}) = k - 1

(***************************************************************************)
(* C14.  With more than K candidate sentences the extractive summary has   *)
(* exactly K sentences from K distinct positions, listed in the order of   *)
(* their positions in the text and not in score order; no sentence left    *)
(* out has a higher centrality score than a sentence taken.  With K or     *)
(* fewer candidates all of them are returned in text order.  (When the     *)
(* scores cannot be computed there is no centrality to go by: the K        *)
(* positions are then the first K.)                                        *)
(***************************************************************************)
C14_TopKInTextOrder ==
    pc = "extractive_returned" =>
        LET sentences == Candidates(doc_text)
            n == Len(sentences)
            K == args.num_sentences
        IN  IF n <= K THEN result = sentences
            ELSE /\ Len(result) = K
                 /\ \E I \in SUBSET (1..n) :
                      /\ Cardinality(I) = K
                      /\ \A k \in 1..K : result[k] = sentences[KthOf(I, k)]
                      /\ IF args.enc.raises THEN I = 1..K
                         ELSE \A i \in I, j \in (1..n) \ I :
                                  args.enc.scores[i] >= args.enc.scores[j]

\* ten candidate sentences, three asked for, and the best-scored sentence
\* is not the first of the text that is taken
C14_Witness ==
    /\ pc = "extractive_returned"
    /\ Len(Candidates(doc_text)) = 10
    /\ args.num_sentences = 3
    /\ ~args.enc.raises
    /\ Len(result) = 3
    /\ \E i \in 1..10 :
         /\ \A j \in 1..10 : args.enc.scores[i] >= args.enc.scores[j]
         /\ result[2] = Candidates(doc_text)[i]

\* the first sentence of s, or its first 100 characters when s has no
\* sentence boundary
FirstSentenceOr100(s) ==
    IF \E p \in 1..Len(s) : IsTerminator(At(s, p))
    THEN ws_strip(re_split_sentences(s)[1])
    ELSE Prefix(s, 100)

(***************************************************************************)
(* C15.  per_clause_summaries has one entry for every clause supplied, in  *)
(* input order and keyed by the clause id; when condensation of a clause's *)
(* text fails, the summary of that clause is its first sentence, or its    *)
(* first 100 characters when the text has no sentence boundary.            *)
(***************************************************************************)
C15_ClauseFallback ==
    pc = "summarize_returned" =>
        /\ Len(result.per_clause_summaries) = Len(clauses)
        /\ \A i \in 1..Len(clauses) :
             LET entry       == result.per_clause_summaries[i]
                 clause_text == CLEAN_TEXT[ClauseTextOf(clauses[i])]
             IN  /\ entry.clause_id = clauses[i].id
                 /\ (AbstractiveFails(clause_text, args.a)
                        => entry.summary = FirstSentenceOr100(clause_text))

(***************************************************************************)
(* C16.  In every mode and for the per-clause summaries, a text of fewer   *)
(* than 20 words is its own summary, unchanged, and no model (tokenizer,   *)
(* condensation or embedding) is invoked for it.                           *)
(***************************************************************************)
C16_ShortTextUnchanged ==
    pc = "summarize_returned" =>
        LET cleaned   == CLEAN_TEXT[doc_text]
            short_doc == Len(split(cleaned)) < 20
            ShortClause(i) == Len(split(CLEAN_TEXT[ClauseTextOf(clauses[i])])) < 20
        IN  /\ short_doc => /\ result.short_summary = cleaned
                            /\ result.long_summary = cleaned
            /\ \A i \in 1..Len(clauses) :
                 ShortClause(i) => result.per_clause_summaries[i].summary
                                       = CLEAN_TEXT[ClauseTextOf(clauses[i])]
            /\ (short_doc /\ \A i \in 1..Len(clauses) : ShortClause(i)) => calls = <<>>

(***************************************************************************)
(* utils.py: chunk_text on its own                                         *)
(***************************************************************************)
\* How many pieces a modelled text is put together from at most
MaxChunkParts == 3

CHUNK_PIECES ==
    {"1. Payment due.", " 2) Term ends.", "\n\nSection 3 applies.", "  ", "a) now"}

RECURSIVE ConcatPieces(_, _)
ConcatPieces(pieces, n) ==
    IF n = 0 THEN "" ELSE ConcatPieces(pieces, n - 1) \o pieces[n]

ChunkTexts ==
    {ConcatPieces(ps, Len(ps)) : ps \in UNION {[1..n -> CHUNK_PIECES] : n \in 0..MaxChunkParts}}

\* the max_chars asked for: small ones, so that the modelled texts fit
\* exactly, barely or not at all, and the 3000 of the summarizer
MaxCharsValues == {4} \cup 13..16 \cup {3000}

InitChunk ==
    /\ pc = "chunk_call"
    /\ doc_text \in ChunkTexts
    /\ args \in [max_chars : MaxCharsValues]
    /\ calls = <<>>
    /\ models = MODELS
    /\ embeddings = EXEMPLARS
    /\ cache = {}
    /\ clauses = <<>>
    /\ encodes = <<>>
    /\ clause_risks = <<>>
    /\ total_risk_score = 0
    /\ risk_counts = [l \in {"Low", "Medium", "High"} |-> 0]
    /\ result = NoResult
    /\ exc = "none"
    /\ raw_clauses = <<>>
    /\ results = <<>>

\* lines 209-232; clauses is the local list of line 213
ChunkText ==
    /\ pc = "chunk_call"
    /\ \E cls \in {utils_extract_clauses(doc_text)} :
         /\ clauses' = cls
         /\ result' = ChunkLoopEnd(ChunkLoopAll(cls, args.max_chars))
    /\ pc' = "chunk_returned"
    /\ UNCHANGED <<models, embeddings, cache, encodes, clause_risks, total_risk_score, risk_counts,
                   exc, raw_clauses, results, doc_text, args, calls>>

NextChunk == ChunkText

\* one call of chunk_text
SpecChunk == InitChunk /\ [][NextChunk]_vars

\* the texts of the clauses i..j joined by blank lines
RECURSIVE JoinParagraphs(_, _, _)
JoinParagraphs(cls, i, j) ==
    IF i > j THEN ""
    ELSE IF i = j THEN cls[i].text
    ELSE JoinParagraphs(cls, i, j - 1) \o "\n\n" \o cls[j].text

(***************************************************************************)
(* C17.  When every clause the clause splitter produces fits under         *)
(* max_chars, chunk_text splits inside no clause: the chunks are the       *)
(* clauses, whole and in their original order, each clause in exactly one  *)
(* chunk (a chunk is a run of consecutive clauses joined by blank lines).  *)
(***************************************************************************)
C17_ClausesStayWhole ==
    (/\ pc = "chunk_returned"
     /\ \A i \in 1..Len(clauses) : Len(clauses[i].text) <= args.max_chars)
    => \E g \in [1..Len(clauses) -> 1..Len(result)] :
         /\ \A i, j \in 1..Len(clauses) : i < j => g[i] <= g[j]
         /\ \A k \in 1..Len(result) :
              LET mine == {i \in 1..Len(clauses) : g[i] = k}
              IN  /\ mine # {}
                  /\ result[k] = JoinParagraphs(clauses, SetMin(mine), SetMax(mine))

\* a clause exactly max_chars long, written with a numbering, is one chunk
C17_Witness ==
    /\ pc = "chunk_returned"
    /\ Len(clauses) = 1
    /\ Len(clauses[1].text) = args.max_chars
    /\ \E p \in 1..Len(doc_text) : ClausePatternAt(doc_text, p).last # 0
    /\ result = <<clauses[1].text>>

(***************************************************************************)
(* C18.  Every chunk chunk_text(text, max_chars) returns has at most       *)
(* max_chars characters, for every text, also when a clause is longer than *)
(* max_chars.                                                              *)
(***************************************************************************)
C18_ChunksWithinMaxChars ==
    pc = "chunk_returned" =>
        \A k \in 1..Len(result) : Len(result[k]) <= args.max_chars

\* a clause longer than max_chars has been cut to max_chars
C18_Witness ==
    /\ pc = "chunk_returned"
    /\ Len(clauses) = 1
    /\ Len(clauses[1].text) > args.max_chars
    /\ Len(result) = 1
    /\ Len(result[1]) = args.max_chars

(***************************************************************************)
(* risk_detector.py: assess_risks on a document of low-risk clauses        *)
(***************************************************************************)
\* the number of clauses of the document
LowDocClauses == 10

\* Clauses without a lexicon match whose type weighs at most 0.5, with what
\* the embedding call answers for each: a strong similarity to a risky
\* exemplar, or a moderate one.
LowRiskInputs == {
    [clause |-> [text |-> T_CONFIDENCE, type |-> PyStr("Confidentiality")],
     enc    |-> Similarities(<<90, 41, 37, 12, 55, 8, 23>>)],
    [clause |-> [text |-> T_CONFIDENCE, type |-> PyStr("Confidentiality")],
     enc    |-> Similarities(<<40, 31, 27, 12, 35, 8, 23>>)]
}

\* lines 385-389 on the next clause of such a document
AssessLowClause ==
    /\ pc = "assess_loop"
    /\ Len(clauses) < LowDocClauses
    /\ \E inp \in LowRiskInputs :
         LET clause          == [id |-> Len(clauses) + 1] @@ inp.clause
             risk_assessment == _assess_clause_risk(clause, inp.enc)
         IN  /\ ~IsException(risk_assessment)
             /\ clauses' = Append(clauses, clause)
             /\ encodes' = EncodesAfter(clause, inp.enc)
             /\ clause_risks' = Append(clause_risks, risk_assessment)
             /\ total_risk_score' = total_risk_score + risk_assessment.risk_score
             /\ risk_counts' = [risk_counts EXCEPT ![risk_assessment.risk_level] = @ + 1]
    /\ UNCHANGED <<models, embeddings, cache, pc, result, exc, raw_clauses, results, doc_text, args, calls>>

NextLowDoc ==
    \/ AssessLowClause
    \/ AssessReturn

\* one call of assess_risks on a document of up to LowDocClauses such clauses
SpecLowDoc == InitAssess /\ [][NextLowDoc]_vars

\* assess_risks has returned for a document of LowDocClauses clauses, none
\* matching a lexicon pattern, each of a type weighing at most 0.5
LowDocAssessed ==
    /\ pc = "assess_returned"
    /\ Len(clauses) = LowDocClauses
    /\ \A i \in 1..Len(clauses) :
         /\ KEYWORD_RISK[clauses[i].text].matched_terms = <<>>
         /\ CLAUSE_TYPE_WEIGHTS(lower(clauses[i].type.v)) <= W(5)

\* the embedding call failed for the i-th clause, or answered with no
\* similarity above 0.4
SimilarityAtMost40(i) ==
    encodes[i].raises \/ NpMax(encodes[i].similarities) <= 40

(***************************************************************************)
(* C19, as stated.  A 10-clause document without lexicon match and with    *)
(* low-weighted types has contract_risk_level "Low", whatever the          *)
(* similarity scores and the lengths are.                                  *)
(***************************************************************************)
C19_AlwaysLow ==
    LowDocAssessed => result.contract_risk_level = "Low"

(***************************************************************************)
(* C19, amended.  Such a document has contract_risk_level "Low" or         *)
(* "Medium", never "High": every clause scores                             *)
(* 0.3*similarity + 0.1*length_factor + 0.1*type_weight, at most 0.45, so  *)
(* no clause is High.  The level is "Low" when no clause has a similarity  *)
(* score above 0.4, whatever the lengths.                                  *)
(***************************************************************************)
C19_LowOrMedium ==
    LowDocAssessed =>
        /\ result.contract_risk_level \in {"Low", "Medium"}
        /\ result.high_risk_count = 0
        /\ \A i \in 1..Len(clause_risks) : 100 * clause_risks[i].risk_score <= 45 * ONE
        /\ (\A i \in 1..Len(encodes) : SimilarityAtMost40(i))
               => result.contract_risk_level = "Low"

\* ten long clauses with similarity 0.4 give Low; the length factor is 1.0
C19_Witness ==
    /\ LowDocAssessed
    /\ \A i \in 1..Len(encodes) : SimilarityAtMost40(i)
    /\ \E i \in 1..Len(clause_risks) :
         /\ clause_risks[i].length_factor = ONE
         /\ clause_risks[i].similarity_score = Sim(40)
    /\ result.contract_risk_level = "Low"

(***************************************************************************)
(* frontend/app.py: the Streamlit script.  Streamlit runs the script from  *)
(* its first line at start-up and again after every interaction of the     *)
(* user; modules stay imported from one run to the next.                   *)
(***************************************************************************)
\* the message of the exception a parser raises on a file it cannot read
PARSER_MESSAGE == "file is damaged"

\* the message of the exception the sentence encoder raises
ENCODER_MESSAGE == "encode fails"

\* a document of two numbered clauses
D_HEADED ==
    "1. Payment is due within thirty days of each invoice.\n\n"
        \o "2. Either party may terminate this agreement on notice."

\* What load_pdf / load_docx do with the uploaded file.  They return as
\* "full_text" the pages or paragraphs that are not blank, joined by blank
\* lines, "" when there is none (utils.py lines 56 and 82); or the parser
\* raises and they raise "Failed to parse ..." (lines 60-62 and 86-88).
UPLOAD_TEXTS ==
    {PyStr(""), PyStr(D_SHORT), PyStr(D_HEADED), Raise(PARSER_MESSAGE)}

\* st.file_uploader's value when a file is uploaded
UPLOADS ==
    [filename : {"contract.pdf"}, full_text : UPLOAD_TEXTS \ {PyStr(D_HEADED)}]
        \cup [filename : {"Lease.DOCX"}, full_text : {PyStr(D_HEADED), Raise(PARSER_MESSAGE)}]

\* the widgets of a run: st.file_uploader (None without a file) and whether
\* the Analyze button was pressed
WIDGETS == [uploaded_file : UPLOADS \cup {PyNone}, button : BOOLEAN]

\* the statement importing the m-th backend module is about to run
ImportPc(m) == "import_" \o BACKEND_MODULES[m]

\* module is in sys.modules: its import has completed in this process
ModuleImported(module) ==
    \A i \in 1..Len(MODELS_OF(module)) : MODELS_OF(module)[i] \in models

\* the exception a failed load of the k-th model of module raises
LoadError(module, k) ==
    IF module = "clause_extractor" /\ k = 1 THEN "OSError" ELSE "Exception"

InitApp ==
    /\ pc = ImportPc(1)
    /\ models = {}
    /\ embeddings = {}
    /\ cache = {}
    /\ args = [uploaded_file |-> PyNone, button |-> FALSE]
    /\ doc_text = ""
    /\ calls = <<>>
    /\ clauses = <<>>
    /\ encodes = <<>>
    /\ clause_risks = <<>>
    /\ total_risk_score = 0
    /\ risk_counts = [l \in {"Low", "Medium", "High"} |-> 0]
    /\ result = NoResult
    /\ exc = "none"
    /\ raw_clauses = <<>>
    /\ results = <<>>

\* app.py lines 23-26, backend/__init__.py lines 12-15: import the next
\* backend module.  A module imported by an earlier run is not executed
\* again.  Otherwise its models are loaded in turn and then its exemplar
\* embeddings are computed (k = 0: all succeed; k > 0: the k-th of these
\* steps raises, nothing of the module is kept and the run ends with the
\* exception).
ImportBackend ==
    /\ \E m \in 1..Len(BACKEND_MODULES) :
         /\ pc = ImportPc(m)
         /\ LET module  == BACKEND_MODULES[m]
                next_pc == IF m < Len(BACKEND_MODULES) THEN ImportPc(m + 1) ELSE "app_main"
            IN  IF ModuleImported(module)
                THEN /\ pc' = next_pc
                     /\ UNCHANGED <<models, embeddings, exc>>
                ELSE \E k \in 0..(Len(MODELS_OF(module)) + Cardinality(EMBEDDINGS_OF(module))) :
                       IF k = 0
                       THEN /\ models' = models \cup
                                   {MODELS_OF(module)[i] : i \in 1..Len(MODELS_OF(module))}
                            /\ embeddings' = embeddings \cup EMBEDDINGS_OF(module)
                            /\ pc' = next_pc
                            /\ UNCHANGED exc
                       ELSE /\ exc' = LoadError(module, k)
                            /\ pc' = "app_import_error"
                            /\ UNCHANGED <<models, embeddings>>
    /\ UNCHANGED <<cache, clauses, encodes, clause_risks, total_risk_score, risk_counts,
                   result, raw_clauses, results, doc_text, args, calls>>

\* lines 81-93 and 350-357: main() asks load_models(); without the models
\* the run stops before the upload section
LoadModels ==
    /\ pc = "app_main"
    /\ pc' = IF \A m \in 1..Len(BACKEND_MODULES) : ModuleImported(BACKEND_MODULES[m])
             THEN "app_upload"
             ELSE "app_stopped"
    /\ UNCHANGED <<models, embeddings, cache, clauses, encodes, clause_risks, total_risk_score, risk_counts,
                   result, exc, raw_clauses, results, doc_text, args, calls>>

\* lines 363-392: process_document is called when a file is uploaded and the
\* button was pressed; otherwise the run ends with the page shown
UploadSection ==
    /\ pc = "app_upload"
    /\ pc' = IF args.uploaded_file # PyNone /\ args.button THEN "app_process" ELSE "app_idle"
    /\ UNCHANGED <<models, embeddings, cache, clauses, encodes, clause_risks, total_risk_score, risk_counts,
                   result, exc, raw_clauses, results, doc_text, args, calls>>

\* st.cache_data has memoized process_document for the file u
Memoized(u) == \E e \in cache : e.key = u

\* the dict memoized for the file u
MemoizedValue(u) == (CHOOSE e \in cache : e.key = u).value

\* process_document returns the dict d: st.cache_data memoizes it under the
\* arguments of the call, and the run ends with the result shown (a failure
\* stops it at line 396)
ProcessReturn(d) ==
    /\ result' = d
    /\ cache' = cache \cup {[key |-> args.uploaded_file, value |-> d]}
    /\ pc' = "app_idle"

\* str(e) of the exception load_pdf or load_docx raises for the file
\* (lines 263-268 of app.py, lines 60-62 and 86-88 of utils.py)
LoadFailure(filename, message) ==
    IF SubSeq(lower(filename), Len(filename) - 3, Len(filename)) = ".pdf"
    THEN "Failed to parse PDF: " \o message
    ELSE "Failed to parse DOCX: " \o message

\* line 255: st.cache_data answers a call whose arguments it has memoized
\* with the dict it keeps; the body of process_document does not run
ProcessDocumentCached ==
    /\ pc = "app_process"
    /\ Memoized(args.uploaded_file)
    /\ result' = MemoizedValue(args.uploaded_file)
    /\ pc' = "app_idle"
    /\ UNCHANGED <<models, embeddings, cache, clauses, encodes, clause_risks, total_risk_score,
                   risk_counts, exc, raw_clauses, results, doc_text, args, calls>>

\* process_document, lines 255-283, on arguments not memoized: the text of
\* the file is taken and cleaned.  A loader that raises, a text that is
\* None (which no loader returns) and a blank text end in the handler of
\* line 310, which returns the failure.
ProcessExtractText ==
    /\ pc = "app_process"
    /\ ~Memoized(args.uploaded_file)
    /\ LET raw_text == args.uploaded_file.full_text
       IN  IF IsException(raw_text)
           THEN /\ ProcessReturn([success |-> FALSE,
                                  error   |-> LoadFailure(args.uploaded_file.filename,
                                                          raw_text.exception)])
                /\ UNCHANGED doc_text
           ELSE IF raw_text = PyNone
           THEN /\ ProcessReturn([success |-> FALSE, error |-> "Extracted raw_text is None"])
                /\ UNCHANGED doc_text
           ELSE IF ws_strip(raw_text.v) = ""
           THEN /\ ProcessReturn([success |-> FALSE,
                                  error   |-> "Extracted raw_text is empty or whitespace only"])
                /\ UNCHANGED doc_text
           ELSE /\ doc_text' = clean_text(raw_text.v)
                /\ pc' = "app_extract_clauses"
                /\ UNCHANGED <<result, cache>>
    /\ UNCHANGED <<models, embeddings, clauses, encodes, clause_risks, total_risk_score, risk_counts,
                   exc, raw_clauses, results, args, calls>>

\* How many fragments _split_into_clauses makes of a text of at most 250
\* characters that is not blank: the parts the structural split keeps, or
\* else one group of all its sentences (clause_extractor.py lines 64-95)
AppFragments(text) ==
    IF StructuralClauses(re_split_headings(text), Len(re_split_headings(text))) # <<>>
    THEN Len(StructuralClauses(re_split_headings(text), Len(re_split_headings(text))))
    ELSE 1

\* Line 285: extract_clauses classifies the fragments in turn.
\* classify_clause encodes the fragment and then asks for the template
\* embeddings, which are encoded and kept the first time they are asked
\* for (clause_extractor.py lines 60-62, 114-115).  k = 0: every encode
\* succeeds.  k > 0: an encode made for the k-th fragment raises,
\* extract_clauses raises and the handler of line 310 returns the failure;
\* the templates are kept if an earlier fragment was classified.
ProcessExtractClauses ==
    /\ pc = "app_extract_clauses"
    /\ calls' = Append(calls, "extract_clauses")
    /\ \E k \in 0..AppFragments(doc_text) :
         IF k = 0
         THEN /\ embeddings' = embeddings \cup {TEMPLATE_EMBEDDINGS}
              /\ pc' = "app_assess_risks"
              /\ UNCHANGED <<result, cache>>
         ELSE /\ embeddings' = IF k > 1 THEN embeddings \cup {TEMPLATE_EMBEDDINGS}
                               ELSE embeddings
              /\ ProcessReturn([success |-> FALSE, error |-> ENCODER_MESSAGE])
    /\ UNCHANGED <<models, clauses, encodes, clause_risks, total_risk_score, risk_counts,
                   exc, raw_clauses, results, doc_text, args>>

\* line 286
ProcessAssessRisks ==
    /\ pc = "app_assess_risks"
    /\ calls' = Append(calls, "assess_risks")
    /\ pc' = "app_summarize"
    /\ UNCHANGED <<models, embeddings, cache, clauses, encodes, clause_risks, total_risk_score, risk_counts,
                   result, exc, raw_clauses, results, doc_text, args>>

\* lines 287-308: the last of the three analyses, and the returned dict
\* (of which the results of the three analyses are left out here)
ProcessSummarize ==
    /\ pc = "app_summarize"
    /\ calls' = Append(calls, "summarize_document")
    /\ ProcessReturn([success    |-> TRUE,
                      metadata   |-> [filename         |-> args.uploaded_file.filename,
                                      total_characters |-> Len(doc_text)],
                      raw_text   |-> args.uploaded_file.full_text.v,
                      clean_text |-> doc_text])
    /\ UNCHANGED <<models, embeddings, clauses, encodes, clause_risks, total_risk_score, risk_counts,
                   exc, raw_clauses, results, doc_text, args>>

\* The user acts and the script runs again.  On the page a run has shown,
\* a file can be put in or taken out and the button pressed for the file
\* that was there; after a run that ended in an exception there is only the
\* reload.  exc keeps the exception that ended the latest failed run.
Rerun ==
    /\ pc \in {"app_idle", "app_import_error", "app_stopped"}
    /\ \E w \in WIDGETS :
         /\ IF pc = "app_idle"
            THEN w.button => (w.uploaded_file # PyNone /\ w.uploaded_file = args.uploaded_file)
            ELSE w = [args EXCEPT !.button = FALSE]
         /\ args' = w
    /\ pc' = ImportPc(1)
    /\ calls' = <<>>
    /\ result' = NoResult
    /\ doc_text' = ""
    /\ UNCHANGED <<models, embeddings, cache, clauses, encodes, clause_risks, total_risk_score, risk_counts,
                   exc, raw_clauses, results>>

NextApp ==
    \/ ImportBackend
    \/ LoadModels
    \/ UploadSection
    \/ ProcessDocumentCached
    \/ ProcessExtractText
    \/ ProcessExtractClauses
    \/ ProcessAssessRisks
    \/ ProcessSummarize
    \/ Rerun

\* the application process
SpecApp == InitApp /\ [][NextApp]_vars

\* process_document is running, or has run, on an uploaded document
Analysing ==
    \/ pc \in {"app_process", "app_extract_clauses", "app_assess_risks", "app_summarize"}
    \/ calls # <<>>
    \/ result # NoResult

\* A start-up of this process has failed on a model: ImportBackend sets exc
\* to the exception raised, and no later run of the script clears it
LoadHasFailed == exc # "none"

\* While a model of the backend is not loaded the script does not get past
\* its imports, so nothing is analysed; a load that fails ends the run with
\* the exception raised.
ModelsLoadedWhenAnalysing ==
    /\ Analysing => models = MODELS
    /\ models # MODELS =>
         pc \in {ImportPc(m) : m \in 1..Len(BACKEND_MODULES)} \cup {"app_import_error"}
    /\ pc = "app_import_error" => (exc # "none" /\ models # MODELS /\ ~Analysing)

(***************************************************************************)
(* C20.  No document is ever analysed unless every model has been loaded,  *)
(* and once a tagging, embedding or condensation model has failed to load  *)
(* at a start-up, process_document, extract_clauses, assess_risks and      *)
(* summarize_document are never run on an uploaded document in that        *)
(* process.                                                                *)
(***************************************************************************)
C20_NoAnalysisAfterFailedLoad ==
    /\ ModelsLoadedWhenAnalysing
    /\ LoadHasFailed => ~Analysing

(***************************************************************************)
(* The exemplar embeddings over the life of a process: the backend is      *)
(* imported, then classify_clause and assess_risks are called any number   *)
(* of times.  encodes is the history of sentence_model.encode calls.       *)
(***************************************************************************)
\* the most calls made in a modelled process
MaxProcessCalls == 3

\* one call of sentence_model.encode: what is encoded ("RISKY_EXAMPLES", the
\* key of a template, or "clause" for the text of a clause), and whether
\* the call raises
EncodeCall(what, raises) == [what |-> what, raises |-> raises]

\* the keys of TEMPLATE_CLAUSES (lines 47-58), in dict order
TEMPLATE_KEYS == [i \in 1..Len(CLAUSE_KEYWORDS) |-> CLAUSE_KEYWORDS[i].name]

\* which encode of the comprehension of line 62 raises (0: none does)
TemplateFailures == {0, 1, 5, 10}

\* lines 60-62 on an empty cache: the encode calls made, one per template,
\* up to the k-th, which raises (all of them when k = 0)
TemplateEncodes(k) ==
    [i \in 1..(IF k = 0 THEN Len(TEMPLATE_KEYS) ELSE k) |-> EncodeCall(TEMPLATE_KEYS[i], i = k)]

\* the arguments of the classify_clause calls and what line 114 does
ProcessClassifyInputs ==
    {[text |-> T_PAYMENT, enc |-> Similarities(SemVector(2, 80, 40))],
     [text |-> T_PAYMENT, enc |-> EncodeRaises]}

\* the one-clause arguments of the assess_risks calls and what line 444 does
ProcessRiskInputs ==
    {[clause |-> [text |-> T_PAYMENT, type |-> PyStr("Payment")],
      enc    |-> Similarities(<<20, 12, 18, 5, -3, 9, 11>>)],
     [clause |-> [text |-> T_INDEMNIFY, type |-> PyStr("Liability")],
      enc    |-> EncodeRaises]}

InitProcess ==
    /\ pc = "process_start"
    /\ models = {}
    /\ embeddings = {}
    /\ cache = {}
    /\ encodes = <<>>
    /\ calls = <<>>
    /\ clauses = <<>>
    /\ clause_risks = <<>>
    /\ total_risk_score = 0
    /\ risk_counts = [l \in {"Low", "Medium", "High"} |-> 0]
    /\ result = NoResult
    /\ exc = "none"
    /\ raw_clauses = <<>>
    /\ results = <<>>
    /\ doc_text = ""
    /\ args = <<>>

\* backend/__init__.py lines 12-15: the package is imported.  The models
\* load; risk_detector.py lines 357-360 encode RISKY_EXAMPLES, and a
\* failure there ends the import with clause_extractor alone imported.
\* Nothing encodes the templates.
ImportBackendPackage ==
    /\ pc = "process_start"
    /\ \E raises \in BOOLEAN :
         /\ encodes' = <<EncodeCall("RISKY_EXAMPLES", raises)>>
         /\ IF raises
            THEN /\ models' = {MODELS_OF("clause_extractor")[i] :
                                  i \in 1..Len(MODELS_OF("clause_extractor"))}
                 /\ exc' = "Exception"
                 /\ pc' = "process_failed"
                 /\ UNCHANGED embeddings
            ELSE /\ models' = MODELS
                 /\ embeddings' = EMBEDDINGS_OF("risk_detector")
                 /\ pc' = "process_ready"
                 /\ UNCHANGED exc
    /\ UNCHANGED <<cache, clauses, clause_risks, total_risk_score, risk_counts, result,
                   raw_clauses, results, doc_text, args, calls>>

\* clause_extractor.py lines 97-130: one call of classify_clause.  Line 114
\* encodes the clause; then line 115 asks _get_template_embeddings, which
\* encodes the templates unless its lru_cache holds them, and caches them
\* only when it returns.
ClassifyCall ==
    /\ pc = "process_ready"
    /\ Len(calls) < MaxProcessCalls
    /\ \E inp \in ProcessClassifyInputs : \E k \in TemplateFailures :
         LET line114 == Append(encodes, EncodeCall("clause", inp.enc.raises))
         IN  IF inp.enc.raises
             THEN /\ encodes' = line114
                  /\ exc' = "EncodeError"
                  /\ result' = NoResult
                  /\ UNCHANGED embeddings
             ELSE IF TEMPLATE_EMBEDDINGS \in embeddings
             THEN /\ encodes' = line114
                  /\ result' = classify_clause(inp.text, inp.enc)
                  /\ UNCHANGED <<embeddings, exc>>
             ELSE /\ encodes' = line114 \o TemplateEncodes(k)
                  /\ IF k = 0
                     THEN /\ embeddings' = embeddings \cup {TEMPLATE_EMBEDDINGS}
                          /\ result' = classify_clause(inp.text, inp.enc)
                          /\ UNCHANGED exc
                     ELSE /\ exc' = "EncodeError"
                          /\ result' = NoResult
                          /\ UNCHANGED embeddings
    /\ calls' = Append(calls, "classify_clause")
    /\ UNCHANGED <<pc, models, cache, clauses, clause_risks, total_risk_score, risk_counts,
                   raw_clauses, results, doc_text, args>>

\* risk_detector.py lines 376-413: one call of assess_risks on one clause.
\* Line 444 encodes the clause and compares it with RISKY_EMBEDDINGS.
AssessCall ==
    /\ pc = "process_ready"
    /\ Len(calls) < MaxProcessCalls
    /\ \E inp \in ProcessRiskInputs :
         \E risk_assessment \in {_assess_clause_risk([id |-> 1] @@ inp.clause, inp.enc)} :
           /\ encodes' = Append(encodes, EncodeCall("clause", inp.enc.raises))
           /\ result' = Summary(<<inp.clause>>, <<risk_assessment>>,
                                risk_assessment.risk_score,
                                [l \in {"Low", "Medium", "High"} |->
                                    IF l = risk_assessment.risk_level THEN 1 ELSE 0])
    /\ calls' = Append(calls, "assess_risks")
    /\ UNCHANGED <<pc, models, embeddings, cache, clauses, clause_risks, total_risk_score,
                   risk_counts, exc, raw_clauses, results, doc_text, args>>

NextProcess ==
    \/ ImportBackendPackage
    \/ ClassifyCall
    \/ AssessCall

\* one process, up to MaxProcessCalls calls long
SpecProcess == InitProcess /\ [][NextProcess]_vars

\* the exemplar sets: RISKY_EXAMPLES and each of the ten templates
ExemplarNames == {"RISKY_EXAMPLES"} \cup {TEMPLATE_KEYS[i] : i \in 1..Len(TEMPLATE_KEYS)}

\* how many encode calls the process has made on the exemplar what
TimesEncoded(what) == Cardinality({i \in 1..Len(encodes) : encodes[i].what = what})

(***************************************************************************)
(* C21.  Once the process has started, whatever classify_clause and        *)
(* assess_risks calls it has made: each exemplar set (the seven risky      *)
(* examples, each of the ten templates) has been encoded exactly once, and *)
(* every exemplar was encoded before any clause was.                       *)
(***************************************************************************)
C21_ExemplarsEncodedOnce ==
    pc = "process_ready" =>
        /\ \A what \in ExemplarNames : TimesEncoded(what) = 1
        /\ \A i, j \in 1..Len(encodes) :
             (i < j /\ encodes[i].what = "clause") => encodes[j].what = "clause"

(***************************************************************************)
(* risk_detector.py: assess_risks on clauses at the ends of the score      *)
(* range                                                                   *)
(***************************************************************************)
\* the longest argument list of these calls
MaxRangeClauses == 5

\* A clause with every signal at its cap; one of two strong patterns, a
\* moderate similarity and a heavy type; one without a pattern or a weighted
\* type that is unlike every risky exemplar; and an ordinary one.
RangeInputs == {
    [clause |-> [text |-> T_MAXIMAL, type |-> PyStr("Liability")],
     enc    |-> Similarities(<<100, 10, 8, 22, 41, 15, 48>>)],
    [clause |-> [text |-> T_INDEMNIFY240, type |-> PyStr("Liability")],
     enc    |-> Similarities(<<50, 10, 8, 22, 41, 15, 48>>)],
    [clause |-> [text |-> T_PLAIN90, type |-> PyStr("Warranty")],
     enc    |-> Similarities(<<-10, -35, -12, -20, -41, -15, -48>>)],
    [clause |-> [text |-> T_PAYMENT, type |-> PyStr("Payment")],
     enc    |-> Similarities(<<20, 12, 18, 5, -3, 9, 11>>)]
}

\* lines 385-389 on the next clause of such a document
AssessRangeClause ==
    /\ pc = "assess_loop"
    /\ Len(clauses) < MaxRangeClauses
    /\ \E inp \in RangeInputs :
         LET clause          == [id |-> Len(clauses) + 1] @@ inp.clause
             risk_assessment == _assess_clause_risk(clause, inp.enc)
         IN  /\ ~IsException(risk_assessment)
             /\ clauses' = Append(clauses, clause)
             /\ encodes' = EncodesAfter(clause, inp.enc)
             /\ clause_risks' = Append(clause_risks, risk_assessment)
             /\ total_risk_score' = total_risk_score + risk_assessment.risk_score
             /\ risk_counts' = [risk_counts EXCEPT ![risk_assessment.risk_level] = @ + 1]
    /\ UNCHANGED <<models, embeddings, cache, pc, result, exc, raw_clauses, results, doc_text,
                   args, calls>>

NextRange ==
    \/ AssessRangeClause
    \/ AssessReturn

\* one call of assess_risks on up to MaxRangeClauses such clauses
SpecRange == InitAssess /\ [][NextRange]_vars

\* the four signals of a record are at most 1
SignalsAtMostOne(r) ==
    /\ r.keyword_score <= ONE
    /\ r.similarity_score <= ONE
    /\ r.length_factor <= ONE
    /\ r.type_boost <= ONE

\* the document score of a returned summary is at most 1
ContractScoreAtMostOne ==
    pc = "assess_returned" =>
        result.contract_risk_score.num <= ONE * result.contract_risk_score.den

(***************************************************************************)
(* C22, as stated.  Every ClauseRisk has risk_score in [0,1]: the four     *)
(* signals are capped at 1 before fusion, so risk_score <= 1 and           *)
(* contract_risk_score <= 1, and risk_score >= 0 for every clause.         *)
(***************************************************************************)
C22_ScoreInUnitInterval ==
    /\ \A i \in 1..Len(clause_risks) :
         /\ SignalsAtMostOne(clause_risks[i])
         /\ clause_risks[i].risk_score <= ONE
         /\ clause_risks[i].risk_score >= 0
    /\ ContractScoreAtMostOne

(***************************************************************************)
(* C22, amended.  The four signals are capped at 1 before fusion, so       *)
(* risk_score <= 1 and contract_risk_score <= 1.  keyword_score,           *)
(* length_factor and type_boost are at least 0, similarity_score is a      *)
(* cosine and is negative when the clause is unlike every risky exemplar:  *)
(* risk_score >= 0.3*similarity_score, hence >= 0 whenever                 *)
(* similarity_score >= 0, and never below -0.3.                            *)
(***************************************************************************)
C22_ScoreAtMostOne ==
    /\ \A i \in 1..Len(clause_risks) :
         LET r == clause_risks[i]
         IN  /\ SignalsAtMostOne(r)
             /\ r.risk_score <= ONE
             /\ r.keyword_score >= 0 /\ r.length_factor >= 0 /\ r.type_boost >= 0
             /\ r.similarity_score >= -ONE
             /\ 10 * r.risk_score >= 3 * r.similarity_score
             /\ (r.similarity_score >= 0 => r.risk_score >= 0)
             /\ 10 * r.risk_score >= -3 * ONE
    /\ ContractScoreAtMostOne

\* a returned document with a clause whose four signals and score are
\* exactly 1 and a clause that scores below 0; the mean is raised by 0.1
C22_Witness ==
    /\ pc = "assess_returned"
    /\ \E i \in 1..Len(clause_risks) :
         /\ clause_risks[i].risk_score = ONE
         /\ clause_risks[i].keyword_score = ONE /\ clause_risks[i].similarity_score = ONE
         /\ clause_risks[i].length_factor = ONE /\ clause_risks[i].type_boost = ONE
    /\ \E i \in 1..Len(clause_risks) :
         /\ clause_risks[i].risk_score < 0
         /\ clause_risks[i].similarity_score < 0
    /\ result.contract_risk_score.num = total_risk_score + W(1) * Len(clauses)
    /\ result.contract_risk_score.num <= ONE * result.contract_risk_score.den

\* the sentences a..b of sents
Sentences(sents, a, b) == SubSeq(sents, a, b)

\* the fragments the structural split keeps: the positions of the parts of
\* re.split whose trimmed length exceeds 40
KeptParts(parts) == {i \in 1..Len(parts) : Len(ws_strip(parts[i])) > 40}

\* result is sents cut into consecutive groups ending at ends[1] < ends[2]
\* < ..., each joined with spaces and trimmed; a group is closed by the
\* first of its sentences with which its summed length exceeds 250, the
\* last group also by the end of the sentences
GroupedAt(sents, ends, groups) ==
    /\ \A k \in 1..Len(groups) :
         LET from == IF k = 1 THEN 1 ELSE ends[k - 1] + 1
             to   == ends[k]
         IN  /\ from <= to
             /\ groups[k] = ws_strip(JoinSpace(Sentences(sents, from, to), to - from + 1))
             /\ SumLen(Sentences(sents, from, to - 1), to - from) <= 250
             /\ k < Len(groups) => SumLen(Sentences(sents, from, to), to - from + 1) > 250
    /\ (IF groups = <<>> THEN 0 ELSE ends[Len(groups)]) = Len(sents)

(***************************************************************************)
(* C23.  When the structural split has a fragment whose trimmed length     *)
(* exceeds 40, the segmenter returns exactly the fragments that do, in     *)
(* order, and does not ask for sentences.  When it has none, the           *)
(* sentences are grouped: every sentence is in exactly one clause, in the  *)
(* original order, and every clause except possibly the last ends at the   *)
(* first sentence at which its accumulated length exceeds 250; the         *)
(* remainder is flushed at the end of the input.                           *)
(***************************************************************************)
C23_StructuralElseSentenceGroups ==
    pc = "split_returned" =>
        LET parts == re_split_headings(doc_text)
            kept  == KeptParts(parts)
        IN  IF kept # {}
            THEN /\ Len(result) = Cardinality(kept)
                 /\ \A k \in 1..Len(result) : result[k] = ws_strip(parts[KthOf(kept, k)])
                 /\ calls = <<>>
            ELSE /\ calls = <<"nlp">>
                 /\ \E ends \in [1..Len(result) -> 1..Len(args.sents)] :
                      GroupedAt(args.sents, ends, result)

\* no fragment is kept and the twelve sentences of 25 characters make two
\* clauses: the first closed by the eleventh sentence (275 characters, when
\* ten make exactly 250), the second the remainder
C23_Witness ==
    /\ pc = "split_returned"
    /\ KeptParts(re_split_headings(doc_text)) = {}
    /\ Len(args.sents) = 12
    /\ SumLen(args.sents, 10) = 250
    /\ Len(result) = 2
    /\ result[2] = ws_strip(args.sents[12])

\* the lexicon patterns, by position, that match text at least once
MatchedPatterns(text) ==
    {n \in 1..Len(RISK_KEYWORDS) : re_search(RISK_KEYWORDS[n].alts, text)}

\* MatchedPatterns of every input text, evaluated once
MATCHED_PATTERNS == [t \in TEXTS |-> MatchedPatterns(t)]

\* the sum of the weights of a set of lexicon patterns
RECURSIVE SumWeights(_)
SumWeights(N) ==
    IF N = {} THEN 0
    ELSE LET n == SetMax(N) IN RISK_KEYWORDS[n].weight + SumWeights(N \ {n})

\* term is a part of the string key
PartOf(term, key) == \E p \in 1..(Len(key) + 1) : StartsAt(key, term, p)

(***************************************************************************)
(* C24.  The keyword_score of a scored clause is min(S / 5.0, 1.0), S the  *)
(* sum of the weights of the lexicon patterns that match its text, each    *)
(* pattern counted once however often it occurs; 0.1 is added, capped at   *)
(* 1.0, exactly when two or more of the matched patterns weigh 0.8 or      *)
(* more.  matched_terms has one entry per matched pattern, in lexicon      *)
(* order.                                                                  *)
(***************************************************************************)
C24_KeywordScore ==
    (pc = "clause_returned" /\ ~IsException(result)) =>
        \E matched \in {MATCHED_PATTERNS[clauses[1].text]} :
          LET base   == Min(SumWeights(matched) \div 5, ONE)
              strong == {n \in matched : RISK_KEYWORDS[n].weight >= W(8)}
          IN  /\ result.keyword_score =
                     IF Cardinality(strong) >= 2 THEN Min(base + W(1), ONE) ELSE base
              /\ Len(result.matched_terms) = Cardinality(matched)
              /\ \A k \in 1..Len(result.matched_terms) :
                   PartOf(result.matched_terms[k], RISK_KEYWORDS[KthOf(matched, k)].key)

\* two patterns of weight exactly 0.8 and no other: 1.6/5 raised to 0.42
C24_Witness ==
    /\ pc = "clause_returned"
    /\ ~IsException(result)
    /\ clauses[1].text = T_WAIVERS
    /\ result.keyword_score = Frac(42, 100)
    /\ result.matched_terms = <<"waive( right(s)?)?", "consequential damages">>

\* a pattern occurring twice counts once, and one strong pattern among four
\* brings no addition: (0.5 + 0.5 + 0.8 + 0.6)/5
C24_WitnessRepeated ==
    /\ pc = "clause_returned"
    /\ ~IsException(result)
    /\ clauses[1].text = T_BREACHES
    /\ result.keyword_score = Frac(48, 100)

(***************************************************************************)
(* A clause through the classifier and then the risk scorer, as            *)
(* process_document chains them (frontend/app.py lines 285-286): the       *)
(* record extract_clauses makes of a fragment is an element of the         *)
(* argument of assess_risks.                                               *)
(***************************************************************************)
\* the fragments
PipelineTexts == {T_PLAIN90, T_PAYMENT, T_WAIVERS, T_VENUE}

\* what the embedding call of classify_clause answers: each template in
\* turn is the nearest, closely or remotely
PipelineClassifyEncs ==
    {Similarities(SemVector(c, v, 40)) : c \in 1..Len(CLAUSE_KEYWORDS), v \in {60, 90}}

\* what the embedding call of _assess_clause_risk answers
PipelineRiskEncs == {EncodeRaises, Similarities(<<20, 12, 18, 5, -3, 9, 11>>)}

InitPipeline ==
    /\ pc = "pipeline_extract"
    /\ raw_clauses \in {<<t>> : t \in PipelineTexts}
    /\ results = <<>>
    /\ clauses = <<>>
    /\ encodes = <<>>
    /\ clause_risks = <<>>
    /\ total_risk_score = 0
    /\ risk_counts = [l \in {"Low", "Medium", "High"} |-> 0]
    /\ result = NoResult
    /\ exc = "none"
    /\ doc_text = ""
    /\ args = <<>>
    /\ calls = <<>>
    /\ models = MODELS
    /\ embeddings = EXEMPLARS
    /\ cache = {}

\* clause_extractor.py lines 153-164: extract_clauses classifies the
\* fragment and returns its record
PipelineExtract ==
    /\ pc = "pipeline_extract"
    /\ \E enc \in PipelineClassifyEncs :
         \E classified \in {classify_clause(raw_clauses[1], enc)} :
           /\ ~IsException(classified)
           /\ encodes' = Append(encodes, enc)
           /\ results' = <<ClauseRecord(1, raw_clauses[1], classified)>>
    /\ pc' = "pipeline_assess"
    /\ UNCHANGED <<models, embeddings, cache, clauses, clause_risks, total_risk_score, risk_counts,
                   result, exc, raw_clauses, doc_text, args, calls>>

\* the dict extract_clauses returned, as _assess_clause_risk reads it
ClauseDict(record) ==
    [id |-> record.id, text |-> record.text, type |-> PyStr(record.type)]

\* risk_detector.py lines 385-389: assess_risks scores the record
PipelineAssess ==
    /\ pc = "pipeline_assess"
    /\ \E enc \in PipelineRiskEncs :
         \E risk_assessment \in {_assess_clause_risk(ClauseDict(results[1]), enc)} :
           /\ ~IsException(risk_assessment)
           /\ clauses' = <<ClauseDict(results[1])>>
           /\ encodes' = Append(encodes, enc)
           /\ clause_risks' = <<risk_assessment>>
           /\ total_risk_score' = risk_assessment.risk_score
           /\ risk_counts' = [risk_counts EXCEPT ![risk_assessment.risk_level] = @ + 1]
    /\ pc' = "pipeline_assessed"
    /\ UNCHANGED <<models, embeddings, cache, result, exc, raw_clauses, results, doc_text, args,
                   calls>>

NextPipeline ==
    \/ PipelineExtract
    \/ PipelineAssess

SpecPipeline == InitPipeline /\ [][NextPipeline]_vars

\* the ten categories under the names classify_clause returns them
ReturnedTypes ==
    {"Termination", "Payment", "Liability", "Confidentiality", "Intellectual Property",
     "Force Majeure", "Governing Law", "Warranty", "Dispute Resolution", "Renewal"}

\* the category-weight table by the names classify_clause returns, with the
\* 0.1 added for liability (capped at 1.0), in tenths
ReturnedTypeWeight(type) ==
    CASE type = "Liability"             -> 10
      [] type = "Dispute Resolution"    -> 8
      [] type = "Termination"           -> 7
      [] type = "Renewal"               -> 6
      [] type = "Confidentiality"       -> 5
      [] type = "Payment"               -> 4
      [] type = "Intellectual Property" -> 0
      [] type = "Force Majeure"         -> 0
      [] type = "Governing Law"         -> 0
      [] type = "Warranty"              -> 0

(***************************************************************************)
(* C25.  Whatever category classify_clause returns for a clause, as the    *)
(* name it returns it under (underscores replaced by spaces, title case),  *)
(* the type_boost of the clause's risk record is the weight of that        *)
(* category: liability 1.0, dispute_resolution 0.8, termination 0.7,       *)
(* renewal 0.6, confidentiality 0.5, payment 0.4, and 0.0 for              *)
(* intellectual_property, force_majeure, governing_law and warranty.       *)
(***************************************************************************)
C25_ReturnedTypesKeepWeight ==
    pc = "pipeline_assessed" =>
        /\ results[1].type \in ReturnedTypes
        /\ clause_risks[1].type_boost = W(ReturnedTypeWeight(results[1].type))

\* the two-word category that carries a weight: dispute_resolution comes
\* back as "Dispute Resolution" and is weighted 0.8
C25_Witness ==
    /\ pc = "pipeline_assessed"
    /\ results[1].type = "Dispute Resolution"
    /\ clause_risks[1].type_boost = W(8)

\* how many records of risks have the level
CountLevel(risks, level) ==
    Cardinality({i \in 1..Len(risks) : risks[i].risk_level = level})

(***************************************************************************)
(* C26.  In every summary assess_risks returns, the counts agree with the  *)
(* records: risk_distribution[L] is the number of records of clause_risks  *)
(* whose risk_level is L, for L in Low, Medium, High; the three counts sum *)
(* to total_clauses, which is the length of clause_risks; and              *)
(* high_risk_count, medium_risk_count and low_risk_count are the entries   *)
(* of risk_distribution.                                                   *)
(***************************************************************************)
C26_CountsAgree ==
    pc = "assess_returned" =>
        /\ \A level \in {"Low", "Medium", "High"} :
             result.risk_distribution[level] = CountLevel(result.clause_risks, level)
        /\ result.risk_distribution["Low"] + result.risk_distribution["Medium"]
               + result.risk_distribution["High"] = result.total_clauses
        /\ result.total_clauses = Len(result.clause_risks)
        /\ result.high_risk_count = result.risk_distribution["High"]
        /\ result.medium_risk_count = result.risk_distribution["Medium"]
        /\ result.low_risk_count = result.risk_distribution["Low"]

\* a summary with three different counts, none of them 0
C26_Witness ==
    /\ pc = "assess_returned"
    /\ result.low_risk_count = 3
    /\ result.medium_risk_count = 1
    /\ result.high_risk_count = 2
    /\ result.total_clauses = 6

\* a lexicon key without its leading and its trailing word-boundary marker
\* (each marker is the two characters \b)
WithoutBoundaryMarkers(key) == SubSeq(key, 3, Len(key) - 2)

(***************************************************************************)
(* C27.  Each entry of matched_terms is the matched lexicon key with only  *)
(* its leading and trailing word-boundary markers removed: every other     *)
(* character of the key is kept, a first or last letter b of the phrase    *)
(* included (as in the keys for breach and binding arbitration).           *)
(***************************************************************************)
C27_OnlyMarkersStripped ==
    (pc = "clause_returned" /\ ~IsException(result)) =>
        \E matched \in {MATCHED_PATTERNS[clauses[1].text]} :
          /\ Len(result.matched_terms) = Cardinality(matched)
          /\ \A k \in 1..Len(result.matched_terms) :
               result.matched_terms[k]
                   = WithoutBoundaryMarkers(RISK_KEYWORDS[KthOf(matched, k)].key)

\* the parts of clause_pattern.split(text): the text before the first
\* numbering marker, then each marker followed by its body
MarkerParts(s) == ClausePartsFrom(s, 1)

\* how many numbering markers s has
MarkerCount(s) == (Len(MarkerParts(s)) - 1) \div 2

(***************************************************************************)
(* C28.  utils.extract_clauses splits a text on its legal numbering: when  *)
(* the text has k >= 1 numbering markers ("1.", "2)", "a)", "Section 3"),  *)
(* each followed by whitespace and a body that is not blank, it returns    *)
(* one clause per marked body, preceded by one clause for the text before  *)
(* the first marker if there is any; the ids run from 1 in order, each     *)
(* marked clause has its body as text and the marker that introduced it as *)
(* numbering.                                                              *)
(***************************************************************************)
C28_OneClausePerMarker ==
    (/\ pc = "chunk_returned"
     /\ MarkerCount(doc_text) >= 1
     /\ \A j \in 1..MarkerCount(doc_text) : ws_strip(MarkerParts(doc_text)[2 * j + 1]) # "")
    => \E parts \in {MarkerParts(doc_text)} :
         LET k    == MarkerCount(doc_text)
             lead == IF ws_strip(parts[1]) # "" THEN 1 ELSE 0
         IN  /\ Len(clauses) = k + lead
             /\ \A i \in 1..Len(clauses) : clauses[i].id = i
             /\ lead = 1 => clauses[1].text = ws_strip(parts[1])
             /\ \A j \in 1..k :
                  /\ clauses[j + lead].numbering = PyStr(parts[2 * j])
                  /\ clauses[j + lead].text = ws_strip(parts[2 * j + 1])

\* the clause texts from the i-th on occur in s, one after the other, from
\* position from on
RECURSIVE OccurInOrder(_, _, _, _)
OccurInOrder(s, cls, i, from) ==
    IF i > Len(cls) THEN TRUE
    ELSE LET at == MatchesFrom(s, cls[i].text, from)
         IN  at # {} /\ OccurInOrder(s, cls, i + 1, SetMin(at) + Len(cls[i].text))

(***************************************************************************)
(* C29.  chunk_text loses no content: whatever the text and max_chars,     *)
(* every character of every clause text the clause splitter produced is in *)
(* a returned chunk, also when a clause is longer than max_chars (what     *)
(* lies beyond its first max_chars characters is emitted too), so that the *)
(* chunks joined in order contain all the clause texts in order.           *)
(***************************************************************************)
C29_NoContentLost ==
    pc = "chunk_returned" =>
        OccurInOrder(JoinRange(result, 1, Len(result)), clauses, 1, 1)

(***************************************************************************)
(* Binary floating point.  The scores of risk_detector.py are Python       *)
(* floats: IEEE 754 doubles, every operation rounded to the nearest        *)
(* double, ties to the even mantissa.  The definitions below compute the   *)
(* operations the scoring uses on doubles that are zero or positive.       *)
(***************************************************************************)
\* A natural number of any size is the sequence of its digits in base LIMB,
\* the lowest first, without a highest digit 0; <<>> is 0.  The width of a
\* digit is bounded so that the product of two digits is below 2^31.
LIMB_BITS == 14
LIMB == 2 ^ LIMB_BITS

LimbAt(a, i) == IF i <= Len(a) THEN a[i] ELSE 0

RECURSIVE BigNorm(_)
BigNorm(a) ==
    IF a # <<>> /\ a[Len(a)] = 0 THEN BigNorm(SubSeq(a, 1, Len(a) - 1)) ELSE a

\* the natural n < LIMB * LIMB
BigOf(n) == BigNorm(<<n % LIMB, n \div LIMB>>)

RECURSIVE BigAddFrom(_, _, _, _)
BigAddFrom(a, b, i, carry) ==
    IF i > Len(a) /\ i > Len(b) /\ carry = 0 THEN <<>>
    ELSE <<(LimbAt(a, i) + LimbAt(b, i) + carry) % LIMB>>
         \o BigAddFrom(a, b, i + 1, (LimbAt(a, i) + LimbAt(b, i) + carry) \div LIMB)

\* a + b
BigAdd(a, b) == BigNorm(BigAddFrom(a, b, 1, 0))

RECURSIVE BigMulSmallFrom(_, _, _, _)
BigMulSmallFrom(a, k, i, carry) ==
    IF i > Len(a) /\ carry = 0 THEN <<>>
    ELSE <<(LimbAt(a, i) * k + carry) % LIMB>>
         \o BigMulSmallFrom(a, k, i + 1, (LimbAt(a, i) * k + carry) \div LIMB)

\* a * k for a natural k <= LIMB
BigMulSmall(a, k) == BigNorm(BigMulSmallFrom(a, k, 1, 0))

\* a * b, from the digit i of b on
RECURSIVE BigMulFrom(_, _, _)
BigMulFrom(a, b, i) ==
    IF i > Len(b) THEN <<>>
    ELSE BigAdd(BigMulSmall(a, b[i]), <<0>> \o BigMulFrom(a, b, i + 1))

\* a * b
BigMul(a, b) == BigMulFrom(a, b, 1)

\* the division of a by a natural d <= LIMB, arrived at the digit i of a:
\* rem is the remainder and acc the quotient of the digits above it
RECURSIVE BigDivSmallFrom(_, _, _, _, _)
BigDivSmallFrom(a, d, i, rem, acc) ==
    IF i = 0 THEN [q |-> BigNorm(acc), r |-> rem]
    ELSE BigDivSmallFrom(a, d, i - 1, (rem * LIMB + a[i]) % d,
                         <<(rem * LIMB + a[i]) \div d>> \o acc)

\* a \div d and a % d
BigDivSmall(a, d) == BigDivSmallFrom(a, d, Len(a), 0, <<>>)

\* a * 2^k
BigShl(a, k) ==
    BigNorm([i \in 1..(k \div LIMB_BITS) |-> 0] \o BigMulSmall(a, 2 ^ (k % LIMB_BITS)))

\* a \div 2^k
BigShr(a, k) ==
    BigDivSmall(SubSeq(a, (k \div LIMB_BITS) + 1, Len(a)), 2 ^ (k % LIMB_BITS)).q

\* a < b
BigLess(a, b) ==
    IF Len(a) # Len(b) THEN Len(a) < Len(b)
    ELSE \E i \in 1..Len(a) :
            /\ a[i] < b[i]
            /\ \A j \in (i + 1)..Len(a) : a[j] = b[j]

\* the number of binary digits of a
BitLen(a) ==
    IF a = <<>> THEN 0
    ELSE LIMB_BITS * (Len(a) - 1)
         + (CHOOSE k \in 1..LIMB_BITS : 2 ^ (k - 1) <= a[Len(a)] /\ a[Len(a)] < 2 ^ k)

BigOdd(a) == a # <<>> /\ a[1] % 2 = 1

\* A double x >= 0 is [m, q] and stands for m / 2^q: its mantissa m has
\* MANT binary digits, the 52 the format stores and the leading 1, or x is
\* FZERO.  Equal doubles are equal records.
MANT == 52 + 1
FZERO == [m |-> <<>>, q |-> 0]

\* the mantissa m of MANT or MANT + 1 digits as a double
Renormed(m, q) ==
    IF BitLen(m) > MANT THEN [m |-> BigShr(m, 1), q |-> q - 1] ELSE [m |-> m, q |-> q]

\* t / 2^(q+1) rounded to MANT digits, t of MANT + 1 digits; inexact tells
\* that the number rounded is above t / 2^(q+1)
RoundedLast(t, q, inexact) ==
    IF BigOdd(t) /\ (inexact \/ BigOdd(BigShr(t, 1)))
    THEN Renormed(BigAdd(BigShr(t, 1), <<1>>), q)
    ELSE [m |-> BigShr(t, 1), q |-> q]

\* The double nearest to n / 2^q, or to a number between n / 2^q and
\* (n + 1) / 2^q if sticky; a tie goes to the even mantissa.  With sticky, n
\* has more than MANT digits.
RoundToDouble(n, q, sticky) ==
    IF n = <<>> THEN FZERO
    ELSE IF BitLen(n) <= MANT
    THEN [m |-> BigShl(n, MANT - BitLen(n)), q |-> q + MANT - BitLen(n)]
    ELSE RoundedLast(BigShr(n, BitLen(n) - MANT - 1),
                     q - (BitLen(n) - MANT),
                     sticky \/ BigShl(BigShr(n, BitLen(n) - MANT - 1), BitLen(n) - MANT - 1) # n)

\* float(n) of an int 0 <= n < LIMB * LIMB
FromInt(n) == RoundToDouble(BigOf(n), 0, FALSE)

\* x + y
FAdd(x, y) ==
    IF x = FZERO THEN y
    ELSE IF y = FZERO THEN x
    ELSE RoundToDouble(BigAdd(BigShl(x.m, Max(x.q, y.q) - x.q),
                              BigShl(y.m, Max(x.q, y.q) - y.q)),
                       Max(x.q, y.q), FALSE)

\* x * y
FMul(x, y) ==
    IF x = FZERO \/ y = FZERO THEN FZERO
    ELSE RoundToDouble(BigMul(x.m, y.m), x.q + y.q, FALSE)

\* x / d for an int 1 <= d <= LIMB, which Python converts to float(d)
FDivInt(x, d) ==
    IF x = FZERO THEN FZERO
    ELSE RoundToDouble(BigDivSmall(BigShl(x.m, 2 * LIMB_BITS), d).q,
                       x.q + 2 * LIMB_BITS,
                       BigDivSmall(BigShl(x.m, 2 * LIMB_BITS), d).r # 0)

\* x < y
FLess(x, y) ==
    IF y = FZERO THEN FALSE
    ELSE IF x = FZERO THEN TRUE
    ELSE BigLess(BigShl(x.m, Max(x.q, y.q) - x.q), BigShl(y.m, Max(x.q, y.q) - y.q))

\* min(x, y)
FMin(x, y) == IF FLess(y, x) THEN y ELSE x

\* the literal n/d, d a power of ten: the double nearest to the quotient
Decimal(n, d) == FDivInt(FromInt(n), d)

(***************************************************************************)
(* risk_detector.py: assess_risks in the floating point of the code        *)
(***************************************************************************)
\* the longest argument list of these calls
MaxFloatClauses == 31

\* a termination clause of 420 characters with two patterns, of weight 1.0
\* and 0.6
T_EDGE ==
    "Either party may terminate this agreement on ninety days written notice to the other. On termination the Supplier shall indemnify the Buyer against the cost of moving the services to another provider, and each party shall return the property of the other within ten days. The courts of Ohio have exclusive jurisdiction over any dispute that arises out of the termination of this agreement or the return of that property."

\* the literal of a weight W(tenths) of the lexicon or of CLAUSE_TYPE_WEIGHTS
FloatOfTenths(w) == Decimal(w \div W(1), 10)

\* lines 500-505: total_weight after the patterns 1..n, N the patterns that
\* match
RECURSIVE FloatTotalWeight(_, _)
FloatTotalWeight(N, n) ==
    IF n = 0 THEN FZERO
    ELSE IF n \in N
    THEN FAdd(FloatTotalWeight(N, n - 1), FloatOfTenths(RISK_KEYWORDS[n].weight))
    ELSE FloatTotalWeight(N, n - 1)

\* lines 507-511 on total_weight and high_weight_hits
FloatKeywordCapped(total_weight, high_weight_hits) ==
    IF high_weight_hits >= 2
    THEN FMin(FAdd(FMin(FDivInt(total_weight, 5), FromInt(1)), Decimal(1, 10)), FromInt(1))
    ELSE FMin(FDivInt(total_weight, 5), FromInt(1))

\* lines 492-513: the keyword_score of _keyword_risk_score(text)
FloatKeywordScore(text) ==
    FloatKeywordCapped(
        FloatTotalWeight(MatchedPatterns(text), Len(RISK_KEYWORDS)),
        Cardinality({n \in MatchedPatterns(text) : RISK_KEYWORDS[n].weight >= W(8)}))

\* lines 453-454 on max_similarity
FloatSimilarityBoosted(max_similarity) ==
    IF FLess(Decimal(75, 100), max_similarity)
    THEN FMin(FAdd(max_similarity, Decimal(5, 100)), FromInt(1))
    ELSE max_similarity

\* lines 443-458: the similarity sub-score when the largest similarity is
\* h/100 >= 0, 0.0 when the try block raises
FloatSimilarity(enc) ==
    IF enc.raises THEN FZERO
    ELSE FloatSimilarityBoosted(Decimal(NpMax(enc.similarities), 100))

\* lines 468-469 on the weight of the type
FloatTypeCapped(clause_type, type_boost) ==
    IF clause_type \in {"liability", "indemnification"}
    THEN FMin(FAdd(type_boost, Decimal(1, 10)), FromInt(1))
    ELSE type_boost

\* lines 464-469: the type sub-score of a str type
FloatTypeBoost(type_str) ==
    FloatTypeCapped(lower(type_str), FloatOfTenths(CLAUSE_TYPE_WEIGHTS(lower(type_str))))

\* lines 515-524
FloatScoreToLevel(score) ==
    IF FLess(score, Decimal(3, 10)) THEN "Low"
    ELSE IF FLess(score, Decimal(6, 10)) THEN "Medium"
    ELSE "High"

\* lines 472-477: the sum is taken from left to right
FloatFusion(keyword_score, max_similarity, length_factor, type_boost) ==
    FAdd(FAdd(FAdd(FMul(Decimal(5, 10), keyword_score),
                   FMul(Decimal(3, 10), max_similarity)),
              FMul(Decimal(1, 10), length_factor)),
         FMul(Decimal(1, 10), type_boost))

\* lines 479-490: the record of the four signals
FloatRecord(clause, keyword_score, max_similarity, length_factor, type_boost, raw_score) ==
    [clause_id        |-> clause.id,
     risk_score       |-> raw_score,
     risk_level       |-> FloatScoreToLevel(raw_score),
     matched_terms    |-> KeywordScan(lower(clause.text), Len(RISK_KEYWORDS)).matched_terms,
     keyword_score    |-> keyword_score,
     similarity_score |-> max_similarity,
     length_factor    |-> length_factor,
     type_boost       |-> type_boost]

\* the record of four signals, its score their fusion
FloatFused(clause, keyword_score, max_similarity, length_factor, type_boost) ==
    FloatRecord(clause, keyword_score, max_similarity, length_factor, type_boost,
                FloatFusion(keyword_score, max_similarity, length_factor, type_boost))

\* _assess_clause_risk(clause) for a clause dict that has a text and a str
\* type; enc is what the embedding call does
FloatAssessClauseRisk(clause, enc) ==
    FloatFused(clause,
               FloatKeywordScore(lower(clause.text)),
               FloatSimilarity(enc),
               FDivInt(FMin(FDivInt(FromInt(Len(clause.text)), 300), FromInt(2)), 2),
               FloatTypeBoost(clause.type.v))

\* The clause on the threshold: its signals 0.32, 1.0, 0.7 and 0.7 fuse to
\* 0.6 in the reals and to the double below 0.6 in the code.  An ordinary
\* clause and a clause of high risk.
FLOAT_INPUTS == <<
    [clause |-> [text |-> T_EDGE, type |-> PyStr("Termination")],
     enc    |-> Similarities(<<96, 10, 8, 22, 41, 15, 48>>)],
    [clause |-> [text |-> T_PAYMENT, type |-> PyStr("Payment")],
     enc    |-> Similarities(<<20, 12, 18, 5, 0, 9, 11>>)],
    [clause |-> [text |-> T_RISKY, type |-> PyStr("Liability")],
     enc    |-> Similarities(<<100, 10, 8, 22, 41, 15, 48>>)]
>>

\* _assess_clause_risk of every such input, evaluated once; the id is that
\* of the clause assessed
FLOAT_RISK ==
    [k \in 1..Len(FLOAT_INPUTS) |->
        FloatAssessClauseRisk([id |-> 0] @@ FLOAT_INPUTS[k].clause, FLOAT_INPUTS[k].enc)]

\* lines 381-383: the call has set up its locals
InitFloat ==
    /\ pc = "assess_loop"
    /\ clauses = <<>>
    /\ encodes = <<>>
    /\ clause_risks = <<>>
    /\ total_risk_score = FZERO
    /\ risk_counts = [l \in {"Low", "Medium", "High"} |-> 0]
    /\ result = NoResult
    /\ exc = "none"
    /\ raw_clauses = <<>>
    /\ results = <<>>
    /\ doc_text = ""
    /\ args = <<>>
    /\ calls = <<>>
    /\ models = MODELS
    /\ embeddings = EXEMPLARS
    /\ cache = {}

\* no clause of the document is of a kind after the k-th: the documents are
\* runs of equal clauses in the order of FLOAT_INPUTS
NoLaterKind(k) ==
    \A i \in 1..Len(clauses) : \A j \in (k + 1)..Len(FLOAT_INPUTS) :
        clauses[i].text # FLOAT_INPUTS[j].clause.text

\* lines 385-389 on the next clause of such a document
AssessFloatClause ==
    /\ pc = "assess_loop"
    /\ Len(clauses) < MaxFloatClauses
    /\ \E k \in 1..Len(FLOAT_INPUTS) :
         /\ NoLaterKind(k)
         /\ \E risk_assessment \in {[FLOAT_RISK[k] EXCEPT !.clause_id = Len(clauses) + 1]} :
              /\ clauses' = Append(clauses, [id |-> Len(clauses) + 1] @@ FLOAT_INPUTS[k].clause)
              /\ encodes' = Append(encodes, FLOAT_INPUTS[k].enc)
              /\ clause_risks' = Append(clause_risks, risk_assessment)
              /\ total_risk_score' = FAdd(total_risk_score, risk_assessment.risk_score)
              /\ risk_counts' = [risk_counts EXCEPT ![risk_assessment.risk_level] = @ + 1]
    /\ UNCHANGED <<models, embeddings, cache, pc, result, exc, raw_clauses, results, doc_text,
                   args, calls>>

\* list.insert keeping the list descending by risk_score, x after its equals
FloatInsertDesc(sorted, x, k) ==
    SubSeq(sorted, 1, k) \o <<x>> \o SubSeq(sorted, k + 1, Len(sorted))

\* sorted(seq, key=risk_score, reverse=True)
RECURSIVE FloatSortedDesc(_)
FloatSortedDesc(seq) ==
    IF seq = <<>> THEN <<>>
    ELSE \* the last record goes after the records that are not below it
         LET sorted == FloatSortedDesc(SubSeq(seq, 1, Len(seq) - 1))
         IN  FloatInsertDesc(sorted, seq[Len(seq)],
                 Cardinality({i \in 1..Len(sorted) :
                     ~FLess(sorted[i].risk_score, seq[Len(seq)].risk_score)}))

\* lines 391-395: the mean, raised when a clause is High
FloatAvgRaised(avg, counts) ==
    IF counts["High"] > 0 THEN FMin(FAdd(avg, Decimal(1, 10)), FromInt(1)) ELSE avg

\* lines 391-413
FloatSummary(input, risks, avg_risk_score, counts) ==
    [clause_risks        |-> risks,
     contract_risk_score |-> avg_risk_score,
     contract_risk_level |-> FloatScoreToLevel(avg_risk_score),
     risk_distribution   |-> counts,
     top_risky_clauses   |-> Take(FloatSortedDesc(risks), TOP_N),
     total_clauses       |-> Len(input),
     high_risk_count     |-> counts["High"],
     medium_risk_count   |-> counts["Medium"],
     low_risk_count      |-> counts["Low"]]

\* lines 391-413: the argument is exhausted; aggregate and return
FloatReturn ==
    /\ pc = "assess_loop"
    /\ result' = FloatSummary(clauses, clause_risks,
                     FloatAvgRaised(IF clauses # <<>>
                                    THEN FDivInt(total_risk_score, Len(clauses))
                                    ELSE FZERO,
                                    risk_counts),
                     risk_counts)
    /\ pc' = "assess_returned"
    /\ UNCHANGED <<clauses, encodes, clause_risks, total_risk_score, risk_counts,
                   exc, raw_clauses, results>>
    /\ UNCHANGED <<doc_text, args, calls, models, embeddings, cache>>

NextFloat ==
    \/ AssessFloatClause
    \/ FloatReturn

\* one call of assess_risks on up to MaxFloatClauses such clauses
SpecFloat == InitFloat /\ [][NextFloat]_vars

(***************************************************************************)
(* C30.  In every summary assess_risks returns, contract_risk_level "High" *)
(* implies high_risk_count >= 1: the document score, the +0.1 included,    *)
(* reaches the High threshold only when a clause of the document is High   *)
(* itself.                                                                 *)
(***************************************************************************)
C30_HighNeedsHighClause ==
    (pc = "assess_returned" /\ result.contract_risk_level = "High") =>
        /\ result.high_risk_count >= 1
        /\ \E i \in 1..Len(result.clause_risks) :
             result.clause_risks[i].risk_level = "High"

====
